---- MODULE Spec2Model ----
(***************************************************************************)
(* Verification model of gitingest-mcp: the repository-tree builder of the *)
(* GitHub and GitLab providers, the pattern filter, and the git-reference  *)
(* resolution of the tree-view and file-read operations.                   *)
(*                                                                         *)
(* Strings are modelled as sequences of one-character strings, so that     *)
(* glob matching, substring containment, path splitting and byte-order     *)
(* comparison are computed rather than assumed.                            *)
(***************************************************************************)
EXTENDS Integers, Sequences, FiniteSets, TLC

VARIABLES
    \* ---- tree build (build_tree of either provider) ----
    provider,           \* "github" | "gitlab" | "none"
    max_depth,          \* the max_depth argument of build_tree
    include_patterns,   \* sequence of glob patterns
    exclude_patterns,   \* sequence of glob patterns
    ignore_patterns,    \* sequence of substrings
    frames,             \* live build_tree activations, keyed by call id
    fetched,            \* Content Fetcher listing calls made: {[path, depth]}
    listed,             \* number of listing entries served so far
    result,             \* what the root build_tree call returned
    served,             \* the listings of a remote that answers identical
                        \* calls identically: path -> response
    run,                \* 0: one build; 1, 2: first, second of two calls
    outputs,            \* what the finished get_tree_structure calls returned
    \* ---- pattern filter, applied to one entry ----
    f_path,             \* the entry path under test
    f_checked,          \* TRUE once the filter has been applied
    f_kept,             \* the verdict of the filter in build_tree
    f_prev,             \* verdict before the last change of the lists
    f_op,               \* the last filter operation applied
    \* ---- reference resolution (get_tree_structure / get_file_content) ----
    r_req,              \* the call: [op, git_ref, repo_path]
    remote_default,     \* default branch of the remote repository, if any
    r_pc,               \* position of the call
    r_path_branch,      \* branch parse_repo_path found in the path
    r_metadata,         \* how the metadata request ended ("none": not made)
    r_ref_name,         \* the resolved ref_name
    r_calls,            \* Content Fetcher calls made: {[what, ref]}
    r_outcome,          \* "pending" | "ok" | "err"
    r_requests,         \* requests sent: {[what, repo]}, repo as addressed
    r_answer,           \* kind of the response to the listing / file request
    t_args,             \* arguments of the tool call: [tool, repo, git_ref]
    \* ---- create_tree_structure applied to one node ----
    rn_in,              \* [node, prefix, is_last]
    rn_out,             \* the rendered string
    \* ---- repository search (FindRepositories::execute) ----
    s_query,            \* the query argument
    s_prov,             \* per provider: position and result of its search
    s_net,              \* providers a search request was sent to
    s_out,              \* what execute returned
    s_limit,            \* the limit argument: [kind, text, value]
    s_page              \* per provider: the per_page parameter of its request

vars == <<provider, max_depth, include_patterns, exclude_patterns,
          ignore_patterns, frames, fetched, listed, result,
          served, run, outputs,
          f_path, f_checked, f_kept, f_prev, f_op,
          r_req, remote_default, r_pc, r_path_branch, r_metadata,
          r_ref_name, r_calls, r_outcome, r_requests, r_answer, t_args,
          rn_in, rn_out, s_query, s_prov, s_net, s_out, s_limit, s_page>>

refVars == <<r_req, remote_default, r_pc, r_path_branch, r_metadata,
             r_ref_name, r_calls, r_outcome, r_requests, r_answer, t_args>>
treeVars == <<frames, fetched, listed, result>>
runVars == <<served, run, outputs>>
renderVars == <<rn_in, rn_out>>
searchVars == <<s_query, s_prov, s_net, s_out, s_limit, s_page>>
filterVars == <<f_path, f_checked, f_kept, f_prev, f_op>>
paramVars == <<provider, max_depth, include_patterns, exclude_patterns,
               ignore_patterns>>

(***************************************************************************)
(* Bounds of the model                                                     *)
(***************************************************************************)
\* max_depth ranges over 0..MaxDepthBound (the callers pass 10)
MaxDepthBound == 1
\* longest listing one Content Fetcher call returns
MaxEntries == 4
\* total number of entries served over one build
MaxTotalEntries == 4
\* the file cap MAX_FILES (500 in the source), scaled to the listing bound
MAX_FILES == 1
\* longest list of include / exclude / ignore entries
MaxPatterns == 2
\* longest entry path handed to the filter on its own
MaxPathLen == 2
\* most entries of the include, exclude and ignore lists taken together
MaxTotalPatterns == 5

\* Option<u64>: None is the empty tuple, Some(n) the tuple <<n>>
None == <<>>
Some(n) == <<n>>

(***************************************************************************)
(* Strings                                                                 *)
(***************************************************************************)
\* byte value of a character (UTF-8 / ASCII code)
Ord(c) ==
    CASE c = "*" -> 42
      [] c = "/" -> 47
      [] c = "?" -> 63
      [] c = "[" -> 91
      [] c = "a" -> 97
      [] c = "b" -> 98
      [] c = "o" -> 111
      [] c = "r" -> 114
      [] c = "t" -> 116

\* String::cmp: lexicographic comparison of the bytes
RECURSIVE StrCmp(_, _)
StrCmp(s, t) ==
    IF s = <<>> /\ t = <<>> THEN "Equal"
    ELSE IF s = <<>> THEN "Less"
    ELSE IF t = <<>> THEN "Greater"
    ELSE IF Ord(Head(s)) < Ord(Head(t)) THEN "Less"
    ELSE IF Ord(Head(s)) > Ord(Head(t)) THEN "Greater"
    ELSE StrCmp(Tail(s), Tail(t))

\* str::contains
Contains(s, sub) ==
    \E i \in 1..(Len(s) - Len(sub) + 1) : SubSeq(s, i, i + Len(sub) - 1) = sub

\* path.split('/').last().unwrap_or(path): split always yields one piece
RECURSIVE LastSegment(_)
LastSegment(path) ==
    IF path = <<>> THEN <<>>
    ELSE IF path[Len(path)] = "/" THEN <<>>
    ELSE Append(LastSegment(SubSeq(path, 1, Len(path) - 1)), path[Len(path)])

(***************************************************************************)
(* Pattern filter: should_include / should_exclude                         *)
(***************************************************************************)
\* glob::Pattern::new(pattern).is_ok(): over the pattern alphabet of the
\* model a '[' is never closed, which is the "invalid range pattern" error
PatternIsOk(pattern) == \A i \in DOMAIN pattern : pattern[i] # "["

\* glob::Pattern::matches with the default MatchOptions: '*' matches any
\* run of characters (separators included), '?' any one character
RECURSIVE MatchesFrom(_, _, _, _)
MatchesFrom(pattern, i, path, j) ==
    IF i > Len(pattern) THEN j > Len(path)
    ELSE IF pattern[i] = "*"
         THEN \E k \in j..(Len(path) + 1) : MatchesFrom(pattern, i + 1, path, k)
    ELSE IF pattern[i] = "?"
         THEN j <= Len(path) /\ MatchesFrom(pattern, i + 1, path, j + 1)
    ELSE j <= Len(path) /\ path[j] = pattern[i]
            /\ MatchesFrom(pattern, i + 1, path, j + 1)

\* mutant: a pattern that fails to parse matches every path
GlobMatches_MalformedMatchesAll(pattern, path) ==
    IF PatternIsOk(pattern) THEN MatchesFrom(pattern, 1, path, 1) ELSE TRUE

\* the closure of both `any` calls: a pattern that fails to parse is false
GlobMatches(pattern, path) ==
    IF PatternIsOk(pattern) THEN MatchesFrom(pattern, 1, path, 1) ELSE FALSE

\* patterns.iter().any(|pattern| ...), left to right
RECURSIVE AnyGlobMatches(_, _)
AnyGlobMatches(patterns, path) ==
    IF patterns = <<>> THEN FALSE
    ELSE IF GlobMatches(Head(patterns), path) THEN TRUE
    ELSE AnyGlobMatches(Tail(patterns), path)

\* mutant: `all` in place of `any`
RECURSIVE AnyContained_All(_, _)
AnyContained_All(ignores, path) ==
    IF ignores = <<>> THEN TRUE
    ELSE IF ~Contains(path, Head(ignores)) THEN FALSE
    ELSE AnyContained_All(Tail(ignores), path)

\* ignore_patterns.iter().any(|p| path.contains(p.as_str()))
RECURSIVE AnyContained(_, _)
AnyContained(ignores, path) ==
    IF ignores = <<>> THEN FALSE
    ELSE IF Contains(path, Head(ignores)) THEN TRUE
    ELSE AnyContained(Tail(ignores), path)

\* mutant: an empty include list keeps nothing
should_include_EmptyKeepsNothing(path, include) == AnyGlobMatches(include, path)

\* mutant: an entry of the root passes whatever the include list says
should_include_RootEntriesPass(path, include) ==
    IF include = <<>> THEN TRUE
    ELSE AnyGlobMatches(include, path) \/ "/" \notin {path[i] : i \in DOMAIN path}

should_include(path, include) ==
    IF include = <<>> THEN TRUE ELSE AnyGlobMatches(include, path)

should_exclude(path, exclude, ignore) ==
    AnyGlobMatches(exclude, path) \/ AnyContained(ignore, path)

\* the `continue` test at the head of the loop of build_tree, negated
EntryKept(path, include, exclude, ignore) ==
    ~(~should_include(path, include) \/ should_exclude(path, exclude, ignore))

(***************************************************************************)
(* RepoNode and the ordering of children                                   *)
(***************************************************************************)
FileNode(name, size) ==
    [name |-> name, node_type |-> "File", size |-> size,
     children |-> <<>>, file_count |-> 1, dir_count |-> 0]

\* mutant: the stub forgets to count itself
StubNode_SelfNotCounted(path) ==
    [name |-> LastSegment(path), node_type |-> "Directory", size |-> 0,
     children |-> <<>>, file_count |-> 0, dir_count |-> 0]

\* the node returned when depth > max_depth
StubNode(path) ==
    [name |-> LastSegment(path), node_type |-> "Directory", size |-> 0,
     children |-> <<>>, file_count |-> 0, dir_count |-> 1]

\* mutant: the kinds are not compared, only the names
NodeCmp_NamesOnly(a, b) == StrCmp(a.name, b.name)

\* the comparator handed to children.sort_by
NodeCmp(a, b) ==
    IF a.node_type = "Directory" /\ b.node_type = "File" THEN "Less"
    ELSE IF a.node_type = "File" /\ b.node_type = "Directory" THEN "Greater"
    ELSE StrCmp(a.name, b.name)

\* slice::sort_by is a stable sort: insert each element after the
\* elements that do not compare Greater than it
InsertSorted(sorted, x) ==
    LET k == Cardinality({i \in DOMAIN sorted : NodeCmp(sorted[i], x) # "Greater"})
    IN  SubSeq(sorted, 1, k) \o <<x>> \o SubSeq(sorted, k + 1, Len(sorted))

RECURSIVE SortChildren(_)
SortChildren(children) ==
    IF children = <<>> THEN <<>>
    ELSE InsertSorted(SortChildren(SubSeq(children, 1, Len(children) - 1)),
                      children[Len(children)])

\* item.size.unwrap_or(0)
SizeOrZero(size) == IF size = None THEN 0 ELSE size[1]

(***************************************************************************)
(* Content Fetcher: fetch_contents (GitHub), fetch_repository_tree (GitLab)*)
(***************************************************************************)
Providers == {"github", "gitlab"}

\* the "type" strings of the two listing APIs
FileType(p)  == IF p = "github" THEN "file" ELSE "blob"
DirType(p)   == IF p = "github" THEN "dir" ELSE "tree"
OtherType(p) == IF p = "github" THEN "symlink" ELSE "commit"

\* the `match content.content_type.as_str()` / `item.item_type.as_str()`
ItemType(p, type) ==
    IF p = "github"
    THEN (IF type = "file" THEN "File"
          ELSE IF type = "dir" THEN "Directory" ELSE "File")
    ELSE (IF type = "blob" THEN "File"
          ELSE IF type = "tree" THEN "Directory" ELSE "File")

\* what the remote may report for one entry of a listing
RawEntries(p) ==
    { [name |-> <<"a">>, type |-> FileType(p),  size |-> None],
      [name |-> <<"b">>, type |-> FileType(p),  size |-> Some(2)],
      [name |-> <<"a">>, type |-> OtherType(p), size |-> Some(1)],
      [name |-> <<"a">>, type |-> DirType(p),   size |-> None],
      [name |-> <<"b">>, type |-> DirType(p),   size |-> None] }

\* the remote reports the full path of an entry of the directory `path`
ChildPath(path, name) == IF path = <<>> THEN name ELSE path \o <<"/">> \o name

\* the HTTP exchanges a listing call can end in: the send fails; a body
\* that is not JSON and holds "Not Found" or "rate limit"; any other body
\* that is not JSON; a JSON object without the fields of an entry (the
\* error object {"message": ..} of either API); a listing, which names no
\* entry twice
Responses(p, n) ==
    { [kind |-> k, entries |-> <<>>] :
        k \in {"transport_error", "not_found", "rate_limit", "unparsable",
               "message"} }
    \cup
    { [kind |-> "listing", entries |-> es] :
        es \in { l \in UNION { [1..m -> RawEntries(p)] : m \in 0..n } :
                    \A i, j \in DOMAIN l : i # j => l[i] # l[j] } }

\* conversion of the decoded entries into RepoItem
RECURSIVE ToItems(_, _, _)
ToItems(p, path, entries) ==
    IF entries = <<>> THEN <<>>
    ELSE << [name |-> Head(entries).name,
             path |-> ChildPath(path, Head(entries).name),
             item_type |-> ItemType(p, Head(entries).type),
             size |-> Head(entries).size] >>
         \o ToItems(p, path, Tail(entries))

\* GitHubContent has `#[serde(default)]` on every field: a JSON object
\* decodes as GitHubContentResponse::Single whatever its keys are
DefaultContent == [name |-> <<>>, path |-> <<>>,
                   item_type |-> ItemType("github", ""), size |-> None]

\* GitHub: send error, "Not Found" and "rate limit" are errors; any other
\* body that does not decode is an empty listing
fetch_contents(path, resp) ==
    IF resp.kind = "listing"
    THEN [ok |-> TRUE, items |-> ToItems("github", path, resp.entries)]
    ELSE IF resp.kind = "message"
    THEN [ok |-> TRUE, items |-> <<DefaultContent>>]
    ELSE IF resp.kind = "unparsable" THEN [ok |-> TRUE, items |-> <<>>]
    ELSE [ok |-> FALSE, items |-> <<>>]

\* GitLab: only a send error is an error; every body that does not decode
\* as a listing (a 404 or 429 message object too) is an empty listing
fetch_repository_tree(path, resp) ==
    IF resp.kind = "listing"
    THEN [ok |-> TRUE, items |-> ToItems("gitlab", path, resp.entries)]
    ELSE IF resp.kind = "transport_error" THEN [ok |-> FALSE, items |-> <<>>]
    ELSE [ok |-> TRUE, items |-> <<>>]

(***************************************************************************)
(* build_tree activations                                                  *)
(***************************************************************************)
NoNode == [node_type |-> "None"]
Pending == [status |-> "pending", node |-> NoNode]
Ok(node) == [status |-> "ok", node |-> node]
Err == [status |-> "err", node |-> NoNode]

\* mutant: `dir_count` starts at 0, the directory does not count itself
NewFrame_SelfNotCounted(path, depth) ==
    [path |-> path, depth |-> depth, pc |-> "entry", contents |-> <<>>,
     children |-> <<>>, file_count |-> 0, dir_count |-> 0, total_size |-> 0,
     tasks |-> <<>>, completed |-> <<>>, ret |-> Pending]

\* the locals of build_tree after the depth check; `completed` is the
\* order in which the futures of `tasks` have completed so far
NewFrame(path, depth) ==
    [path |-> path, depth |-> depth, pc |-> "entry", contents |-> <<>>,
     children |-> <<>>, file_count |-> 0, dir_count |-> 1, total_size |-> 0,
     tasks |-> <<>>, completed |-> <<>>, ret |-> Pending]

RootId == <<>>
ParentId(id) == SubSeq(id, 1, Len(id) - 1)
\* the root call is over: only its final locals are kept, for inspection
Returned(fr) == (RootId :> [fr[RootId] EXCEPT !.pc = "returned"])
DropFrames(fr, ids) == [i \in (DOMAIN fr) \ ids |-> fr[i]]

\* mutant: the File arm pushes the leaf but does not count it
AddFile_NotCounted(f, item) ==
    [f EXCEPT !.total_size = @ + SizeOrZero(item.size),
              !.children = Append(@, FileNode(item.name, SizeOrZero(item.size)))]

\* the File arm of the loop
AddFile(f, item) ==
    [f EXCEPT !.total_size = @ + SizeOrZero(item.size),
              !.file_count = @ + 1,
              !.children = Append(@, FileNode(item.name, SizeOrZero(item.size)))]

\* mutant: the size of the child is not added to the parent
AbsorbChild_SizeDropped(f, child_node) ==
    [f EXCEPT !.file_count = @ + child_node.file_count,
              !.dir_count = @ + child_node.dir_count,
              !.children = Append(@, child_node)]

\* the aggregation of a child that returned Ok
AbsorbChild(f, child_node) ==
    [f EXCEPT !.file_count = @ + child_node.file_count,
              !.dir_count = @ + child_node.dir_count,
              !.total_size = @ + child_node.size,
              !.children = Append(@, child_node)]

\* the display name of a built directory
NodeName(p, path) ==
    IF p = "gitlab" /\ path = <<>> THEN <<"r", "o", "o", "t">>
    ELSE LastSegment(path)

\* the sort and the final Ok(RepoNode { .. })
FinishNode(p, f) ==
    [name |-> NodeName(p, f.path), node_type |-> "Directory",
     size |-> f.total_size, children |-> SortChildren(f.children),
     file_count |-> f.file_count, dir_count |-> f.dir_count]

\* mutant: the count is not local to one build, the listing calls made
\* so far weigh on the cap
OverCap_CountsEarlierCalls(f) == f.file_count + Cardinality(fetched) > MAX_FILES + 1

\* mutant: the loop is left one file later
OverCap_OneLater(f) == f.file_count > MAX_FILES + 1

\* file_count > MAX_FILES, the test that ends the loop
OverCap(f) == f.file_count > MAX_FILES

\* mutant: the error of a child is dropped and the loop of the parent goes on
GitHubReturn_ErrorSwallowed(fr, id, res) ==
    IF id = RootId
    THEN /\ result' = res
         /\ frames' = Returned(fr)
    ELSE LET p == ParentId(id)
             g == IF res.status = "ok" THEN AbsorbChild(fr[p], res.node) ELSE fr[p]
         IN  /\ frames' = [DropFrames(fr, {id}) EXCEPT
                             ![p] = [g EXCEPT !.pc = IF OverCap(g) THEN "finish"
                                                     ELSE "loop"]]
             /\ result' = result

\* GitHub, `.await?` of the parent on the call `id` that returned `res`:
\* Ok is aggregated and the loop goes on (or breaks on the cap);
\* Err leaves every enclosing build_tree through `?`
GitHubReturn(fr, id, res) ==
    IF id = RootId
    THEN /\ result' = res
         /\ frames' = Returned(fr)
    ELSE IF res.status = "ok"
    THEN LET p == ParentId(id)
             g == AbsorbChild(fr[p], res.node)
         IN  /\ frames' = [DropFrames(fr, {id}) EXCEPT
                             ![p] = [g EXCEPT !.pc = IF OverCap(g) THEN "finish"
                                                     ELSE "loop"]]
             /\ result' = result
    ELSE /\ result' = Err
         /\ frames' = Returned(fr)

\* GitLab: the future of call `id` completes with `res`; join_all of the
\* parent keeps it until every sibling has completed
GitLabReturn(fr, id, res) ==
    IF id = RootId
    THEN /\ result' = res
         /\ frames' = Returned(fr)
    ELSE /\ frames' = [i \in DOMAIN fr |->
                          IF i = id THEN [fr[i] EXCEPT !.pc = "done", !.ret = res]
                          ELSE IF i = ParentId(id)
                          THEN [fr[i] EXCEPT !.completed = Append(@, id[Len(id)])]
                          ELSE fr[i]]
         /\ result' = result

Return(fr, id, res) ==
    IF provider = "github" THEN GitHubReturn(fr, id, res)
    ELSE GitLabReturn(fr, id, res)

\* `if depth > max_depth { return Ok(stub) }`
DepthStop(id) ==
    /\ frames[id].pc = "entry"
    /\ frames[id].depth > max_depth
    /\ Return(frames, id, Ok(StubNode(frames[id].path)))
    /\ UNCHANGED <<fetched, listed>>
    /\ UNCHANGED <<paramVars, filterVars, refVars, renderVars, searchVars>>
    /\ UNCHANGED runVars

\* the listing request of build_tree is sent
FetchCall(id) ==
    /\ frames[id].pc = "entry"
    /\ ~(frames[id].depth > max_depth)
    /\ frames' = [frames EXCEPT ![id].pc = "fetch"]
    /\ fetched' = fetched \cup {[path |-> frames[id].path,
                                 depth |-> frames[id].depth]}
    /\ UNCHANGED <<listed, result>>
    /\ UNCHANGED <<paramVars, filterVars, refVars, renderVars, searchVars>>
    /\ UNCHANGED runVars

ListingRoom == IF MaxTotalEntries - listed < MaxEntries
               THEN MaxTotalEntries - listed ELSE MaxEntries

\* the answer of a remote that answers identical calls identically: its
\* listings are fixed, and a path it does not have is not found
RemoteAnswer(path) ==
    IF path \in DOMAIN served THEN served[path]
    ELSE [kind |-> "not_found", entries |-> <<>>]

\* what the remote may answer to the listing of `path`
Answers(p, path) ==
    IF run > 0 THEN {RemoteAnswer(path)} ELSE Responses(p, ListingRoom)

\* ---- GitHub: sequential recursion -------------------------------------
GitHubFetchReturn(id) ==
    /\ provider = "github"
    /\ frames[id].pc = "fetch"
    /\ \E resp \in Answers("github", frames[id].path) :
         LET r == fetch_contents(frames[id].path, resp)
         IN  /\ listed' = IF run > 0 THEN listed ELSE listed + Len(resp.entries)
             /\ IF r.ok
                THEN /\ frames' = [frames EXCEPT ![id].pc = "loop",
                                                 ![id].contents = r.items]
                     /\ result' = result
                ELSE Return(frames, id, Err)
    /\ UNCHANGED fetched
    /\ UNCHANGED <<paramVars, filterVars, refVars, renderVars, searchVars>>
    /\ UNCHANGED runVars

\* an entry that fails the filter: `continue`
GitHubSkip(id) ==
    /\ provider = "github"
    /\ frames[id].pc = "loop"
    /\ frames[id].contents # <<>>
    /\ ~EntryKept(Head(frames[id].contents).path, include_patterns,
                  exclude_patterns, ignore_patterns)
    /\ frames' = [frames EXCEPT ![id].contents = Tail(@)]
    /\ UNCHANGED <<fetched, listed, result>>
    /\ UNCHANGED <<paramVars, filterVars, refVars, renderVars, searchVars>>
    /\ UNCHANGED runVars

\* a kept File entry, then the cap test
GitHubFile(id) ==
    /\ provider = "github"
    /\ frames[id].pc = "loop"
    /\ frames[id].contents # <<>>
    /\ LET item == Head(frames[id].contents)
           g == AddFile(frames[id], item)
       IN  /\ EntryKept(item.path, include_patterns, exclude_patterns,
                        ignore_patterns)
           /\ item.item_type = "File"
           /\ frames' = [frames EXCEPT
                           ![id] = [g EXCEPT !.contents = Tail(@),
                                             !.pc = IF OverCap(g) THEN "finish"
                                                    ELSE "loop"]]
    /\ UNCHANGED <<fetched, listed, result>>
    /\ UNCHANGED <<paramVars, filterVars, refVars, renderVars, searchVars>>
    /\ UNCHANGED runVars

\* a kept Directory entry: the recursive call is made and awaited
GitHubDir(id) ==
    /\ provider = "github"
    /\ frames[id].pc = "loop"
    /\ frames[id].contents # <<>>
    /\ LET item == Head(frames[id].contents)
           cid == Append(id, Len(frames[id].children) + 1)
       IN  /\ EntryKept(item.path, include_patterns, exclude_patterns,
                        ignore_patterns)
           /\ item.item_type = "Directory"
           /\ frames' = (cid :> NewFrame(item.path, frames[id].depth + 1))
                        @@ [frames EXCEPT ![id].contents = Tail(@),
                                          ![id].pc = "await"]
    /\ UNCHANGED <<fetched, listed, result>>
    /\ UNCHANGED <<paramVars, filterVars, refVars, renderVars, searchVars>>
    /\ UNCHANGED runVars

\* the loop is over (exhausted or broken): sort and return
GitHubFinish(id) ==
    /\ provider = "github"
    /\ \/ frames[id].pc = "finish"
       \/ frames[id].pc = "loop" /\ frames[id].contents = <<>>
    /\ Return(frames, id, Ok(FinishNode("github", frames[id])))
    /\ UNCHANGED <<fetched, listed>>
    /\ UNCHANGED <<paramVars, filterVars, refVars, renderVars, searchVars>>
    /\ UNCHANGED runVars

\* ---- GitLab: sibling directories built concurrently --------------------
\* mutant: only File entries are put to the filter
RECURSIVE GitLabLoop_DirsUnfiltered(_, _)
GitLabLoop_DirsUnfiltered(f, items) ==
    IF items = <<>> THEN [f EXCEPT !.contents = <<>>]
    ELSE LET item == Head(items)
         IN  IF item.item_type = "File"
                /\ ~EntryKept(item.path, include_patterns, exclude_patterns,
                              ignore_patterns)
             THEN GitLabLoop_DirsUnfiltered(f, Tail(items))
             ELSE LET g == IF item.item_type = "File"
                           THEN AddFile(f, item)
                           ELSE [f EXCEPT !.tasks = Append(@, item.path)]
                  IN  IF OverCap(g)
                      THEN [g EXCEPT !.contents = Tail(items)]
                      ELSE GitLabLoop_DirsUnfiltered(g, Tail(items))

\* the whole `for item in contents` loop: it contains no await; Directory
\* entries only push a (not yet started) future on `tasks`
RECURSIVE GitLabLoop(_, _)
GitLabLoop(f, items) ==
    IF items = <<>> THEN [f EXCEPT !.contents = <<>>]
    ELSE LET item == Head(items)
         IN  IF ~EntryKept(item.path, include_patterns, exclude_patterns,
                           ignore_patterns)
             THEN GitLabLoop(f, Tail(items))
             ELSE LET g == IF item.item_type = "File"
                           THEN AddFile(f, item)
                           ELSE [f EXCEPT !.tasks = Append(@, item.path)]
                  IN  IF OverCap(g)
                      THEN [g EXCEPT !.contents = Tail(items)]
                      ELSE GitLabLoop(g, Tail(items))

ChildIds(id, f) == {Append(id, k) : k \in 1..Len(f.tasks)}

\* the futures handed to join_all, one per task
SpawnTasks(id, f) ==
    [c \in ChildIds(id, f) |->
        NewFrame(f.tasks[c[Len(c)]], f.depth + 1)]

GitLabFetchReturn(id) ==
    /\ provider = "gitlab"
    /\ frames[id].pc = "fetch"
    /\ \E resp \in Answers("gitlab", frames[id].path) :
         LET r == fetch_repository_tree(frames[id].path, resp)
             g == GitLabLoop(frames[id], r.items)
         IN  /\ listed' = IF run > 0 THEN listed ELSE listed + Len(resp.entries)
             /\ IF r.ok
                THEN /\ frames' = SpawnTasks(id, g)
                                  @@ [frames EXCEPT ![id] = [g EXCEPT !.pc = "join"]]
                     /\ result' = result
                ELSE Return(frames, id, Err)
    /\ UNCHANGED fetched
    /\ UNCHANGED <<paramVars, filterVars, refVars, renderVars, searchVars>>
    /\ UNCHANGED runVars

\* mutant: the first Err ends the aggregation
RECURSIVE MergeResults_StopAtFailure(_, _)
MergeResults_StopAtFailure(f, results) ==
    IF results = <<>> THEN f
    ELSE IF Head(results).status = "ok"
    THEN MergeResults_StopAtFailure(AbsorbChild(f, Head(results).node),
                                    Tail(results))
    ELSE f

\* `for result in results`: Ok is aggregated, Err is only printed
RECURSIVE MergeResults(_, _)
MergeResults(f, results) ==
    IF results = <<>> THEN f
    ELSE MergeResults(IF Head(results).status = "ok"
                      THEN AbsorbChild(f, Head(results).node)
                      ELSE f,
                      Tail(results))

\* mutant: the results are taken without waiting for the futures
AllJoined_NoWait(id) == TRUE

\* mutant: join_all never resumes
AllJoined_Never(id) == FALSE

\* `future::join_all(tasks).await` resumes once every future has completed
AllJoined(id) == \A c \in ChildIds(id, frames[id]) : frames[c].pc = "done"

\* join_all has every result, in the order of the tasks: merge, sort, return
GitLabJoin(id) ==
    /\ provider = "gitlab"
    /\ frames[id].pc = "join"
    /\ AllJoined(id)
    /\ LET f == frames[id]
           results == [k \in 1..Len(f.tasks) |-> frames[Append(id, k)].ret]
           g == MergeResults(f, results)
       IN  Return([DropFrames(frames, ChildIds(id, f)) EXCEPT ![id] = g], id,
                  Ok(FinishNode("gitlab", g)))
    /\ UNCHANGED <<fetched, listed>>
    /\ UNCHANGED <<paramVars, filterVars, refVars, renderVars, searchVars>>
    /\ UNCHANGED runVars

(***************************************************************************)
(* Tree build: the state after get_tree_structure has called build_tree    *)
(* for the repository root                                                 *)
(***************************************************************************)
\* filter lists the build is run with: (include, exclude, ignore)
TreeFilters ==
    { << <<>>, <<>>, <<>> >>,
      << <<>>, << <<"b">> >>, <<>> >>,
      << << <<"a", "*">> >>, <<>>, << <<"/", "b">> >> >>,
      << << <<"*", "a">> >>, <<>>, <<>> >> }

FilterIdle ==
    /\ f_path = <<>>
    /\ f_checked = FALSE
    /\ f_kept = FALSE
    /\ f_prev = FALSE
    /\ f_op = "none"

NoRef == [kind |-> "None", name |-> <<>>]
NoAnswer == [status |-> 0, kind |-> "none"]
NoArgs == [tool |-> "none", repo |-> <<>>, git_ref |-> None]

RefIdle ==
    /\ r_req = [op |-> "none", git_ref |-> NoRef, repo_path |-> <<>>]
    /\ remote_default = None
    /\ r_pc = "idle"
    /\ r_path_branch = None
    /\ r_metadata = "none"
    /\ r_ref_name = None
    /\ r_calls = {}
    /\ r_outcome = "pending"
    /\ r_requests = {}
    /\ r_answer = NoAnswer
    /\ t_args = NoArgs

RunIdle ==
    /\ served = <<>>
    /\ run = 0
    /\ outputs = <<>>

RenderIdle ==
    /\ rn_in = [node |-> NoNode, prefix |-> <<>>, is_last |-> TRUE]
    /\ rn_out = <<>>

SearchIdle ==
    /\ s_query = None
    /\ s_prov = <<>>
    /\ s_net = {}
    /\ s_out = [status |-> "pending", text |-> "none", results |-> <<>>]
    /\ s_limit = [kind |-> "absent", text |-> <<>>, value |-> 0]
    /\ s_page = <<>>

Init ==
    /\ provider \in Providers
    /\ max_depth \in 0..MaxDepthBound
    /\ \E fs \in TreeFilters :
         /\ include_patterns = fs[1]
         /\ exclude_patterns = fs[2]
         /\ ignore_patterns = fs[3]
    /\ frames = (RootId :> NewFrame(<<>>, 0))
    /\ fetched = {}
    /\ listed = 0
    /\ result = Pending
    /\ RunIdle
    /\ FilterIdle
    /\ RefIdle
    /\ RenderIdle
    /\ SearchIdle

Next ==
    \/ \E id \in DOMAIN frames : DepthStop(id)
    \/ \E id \in DOMAIN frames : FetchCall(id)
    \/ \E id \in DOMAIN frames : GitHubFetchReturn(id)
    \/ \E id \in DOMAIN frames : GitHubSkip(id)
    \/ \E id \in DOMAIN frames : GitHubFile(id)
    \/ \E id \in DOMAIN frames : GitHubDir(id)
    \/ \E id \in DOMAIN frames : GitHubFinish(id)
    \/ \E id \in DOMAIN frames : GitLabFetchReturn(id)
    \/ \E id \in DOMAIN frames : GitLabJoin(id)

Spec == Init /\ [][Next]_vars

(***************************************************************************)
(* Properties of the built trees                                           *)
(***************************************************************************)
\* every node of a tree: the node and all its descendants
RECURSIVE NodesOf(_)
NodesOf(n) == {n} \cup UNION {NodesOf(n.children[i]) : i \in DOMAIN n.children}

RECURSIVE SumOfSizes(_)
SumOfSizes(nodes) ==
    IF nodes = <<>> THEN 0 ELSE Head(nodes).size + SumOfSizes(Tail(nodes))

\* sum of the sizes of the File leaves of a subtree
RECURSIVE LeafSizes(_)
RECURSIVE LeafSizesOfAll(_)
LeafSizes(n) == IF n.node_type = "File" THEN n.size ELSE LeafSizesOfAll(n.children)
LeafSizesOfAll(nodes) ==
    IF nodes = <<>> THEN 0 ELSE LeafSizes(Head(nodes)) + LeafSizesOfAll(Tail(nodes))

\* number of nodes of one kind in a subtree, the root of the subtree included
RECURSIVE CountKind(_, _)
RECURSIVE CountKindOfAll(_, _)
CountKind(n, kind) ==
    (IF n.node_type = kind THEN 1 ELSE 0) + CountKindOfAll(n.children, kind)
CountKindOfAll(nodes, kind) ==
    IF nodes = <<>> THEN 0
    ELSE CountKind(Head(nodes), kind) + CountKindOfAll(Tail(nodes), kind)

\* the trees build_tree has returned so far: the result of the root call,
\* the results join_all holds, and the child results a caller aggregated
ReturnedTrees ==
    (IF result.status = "ok" THEN {result.node} ELSE {})
    \cup {frames[id].ret.node : id \in {i \in DOMAIN frames : frames[i].ret.status = "ok"}}
    \cup UNION {{frames[id].children[k] : k \in DOMAIN frames[id].children} :
                  id \in DOMAIN frames}

ReturnedNodes == UNION {NodesOf(t) : t \in ReturnedTrees}

IsStub(n) ==
    /\ n.node_type = "Directory"
    /\ n.file_count = 0
    /\ n.dir_count = 1
    /\ n.size = 0
    /\ n.children = <<>>

\* the call `id`, entered past the depth bound, returns Ok(stub) in this step
StubReturned(id) ==
    /\ fetched' = fetched
    /\ result' = result
    /\ IF provider = "gitlab"
       THEN /\ id \in DOMAIN frames'
            /\ frames'[id].pc = "done"
            /\ frames'[id].ret.status = "ok"
            /\ IsStub(frames'[id].ret.node)
       ELSE /\ id \notin DOMAIN frames'
            /\ ParentId(id) \in DOMAIN frames'
            /\ Len(frames'[ParentId(id)].children)
                 = Len(frames[ParentId(id)].children) + 1
            /\ IsStub(frames'[ParentId(id)].children[
                        Len(frames'[ParentId(id)].children)])

C1_NoFetchPastDepth ==
    /\ \A c \in fetched : c.depth <= max_depth
    /\ \A id \in DOMAIN frames :
         frames[id].depth > max_depth => frames[id].pc \in {"entry", "done"}

C1_StubStep ==
    \A id \in DOMAIN frames :
        (frames[id].depth > max_depth /\ frames[id].pc = "entry")
            => \/ (id \in DOMAIN frames' /\ frames'[id] = frames[id])
               \/ StubReturned(id)

\* C1: for every max_depth, a build_tree call at depth > max_depth returns
\* Ok with a Directory node of file_count 0, dir_count 1, size 0 and no
\* children, never calls the Content Fetcher and never returns an error
C1_DepthStub == [](C1_NoFetchPastDepth) /\ [][C1_StubStep]_vars

C1_Witness ==
    \E id \in DOMAIN frames :
        /\ frames[id].depth = max_depth + 1
        /\ frames[id].pc = "done"
        /\ frames[id].ret.status = "ok"
        /\ IsStub(frames[id].ret.node)

\* C2: at every Directory node of every returned tree, size is the sum of
\* the children's sizes, which is the sum of the sizes of the File leaves
\* of the subtree
C2_SizeIsSum ==
    \A n \in ReturnedNodes :
        n.node_type = "Directory"
            => /\ n.size = SumOfSizes(n.children)
               /\ n.size = LeafSizes(n)

\* a returned root whose enumeration was cut by the cap, with a nested
\* directory that carries bytes
C2_Witness ==
    /\ result.status = "ok"
    /\ frames[RootId].contents # <<>>
    /\ result.node.size > 0
    /\ \E i \in DOMAIN result.node.children :
         /\ result.node.children[i].node_type = "Directory"
         /\ result.node.children[i].size > 0

Sorted(children) ==
    \A i, j \in DOMAIN children :
        i < j =>
          /\ ~(children[i].node_type = "File" /\ children[j].node_type = "Directory")
          /\ children[i].node_type = children[j].node_type
               => StrCmp(children[i].name, children[j].name) # "Greater"

\* C3: at every node of every returned tree the children are ordered
\* directories first, then files, names non-decreasing within each kind
C3_ChildrenSorted ==
    \A t \in {u \in ReturnedTrees : u.node_type = "Directory"} :
        \A n \in NodesOf(t) : Sorted(n.children)

\* a returned tree whose listing arrived in another order than it is emitted
C3_Witness ==
    /\ result.status = "ok"
    /\ Len(result.node.children) = 3
    /\ result.node.children[1].node_type = "Directory"
    /\ result.node.children[2].node_type = "File"
    /\ result.node.children[2].name = <<"a">>
    /\ result.node.children[3].name = <<"b">>
    /\ frames[RootId].children[1].node_type = "File"
    /\ frames[RootId].children[1].name = <<"b">>

\* C4 as stated: every node counts itself and its Directory descendants
C4_DirCountEveryNode ==
    \A n \in ReturnedNodes :
        /\ n.dir_count = 1 + CountKindOfAll(n.children, "Directory")
        /\ n.dir_count >= 1

\* C4 (amended): a Directory node's dir_count is itself plus its Directory
\* descendants, hence at least 1; a File node's dir_count is 0
C4_DirCount ==
    \A n \in ReturnedNodes :
        IF n.node_type = "Directory"
        THEN /\ n.dir_count = 1 + CountKindOfAll(n.children, "Directory")
             /\ n.dir_count >= 1
        ELSE n.dir_count = 0

C4_Witness ==
    /\ result.status = "ok"
    /\ result.node.dir_count = 3
    /\ \E i \in DOMAIN result.node.children :
         result.node.children[i].node_type = "File"

\* C5: at every node of every returned tree file_count is the number of
\* File leaves of the subtree (a File node counts itself)
C5_FileCount ==
    \A n \in ReturnedNodes : n.file_count = CountKind(n, "File")

\* GitLab: the cap cut the root listing short, and one of the sibling
\* directory builds failed and is absent from the returned root
C5_Witness ==
    /\ provider = "gitlab"
    /\ result.status = "ok"
    /\ frames[RootId].contents # <<>>
    /\ Len(frames[RootId].tasks) > CountKindOfAll(result.node.children, "Directory")
    /\ result.node.file_count >= 2

(***************************************************************************)
(* The pattern filter on its own: one entry path, arbitrary lists          *)
(***************************************************************************)
SeqsUpTo(S, n) == UNION {[1..m -> S] : m \in 0..n}

PathChars == {"a", "b", "/"}
EntryPaths == SeqsUpTo(PathChars, MaxPathLen) \ {<<>>}

\* glob patterns offered to the filter; "[" does not parse
GlobPatterns == {<<"a", "*">>, <<"*", "b">>, <<"[">>}
IgnoreEntries == {<<"b">>, <<"/", "a">>}

TreeIdle ==
    /\ provider = "none"
    /\ max_depth = 0
    /\ frames = <<>>
    /\ fetched = {}
    /\ listed = 0
    /\ result = Pending
    /\ RunIdle

\* entries of the three lists together
PatternCount ==
    Len(include_patterns) + Len(exclude_patterns) + Len(ignore_patterns)

InitFilter ==
    /\ f_path \in EntryPaths
    /\ include_patterns \in SeqsUpTo(GlobPatterns, MaxPatterns)
    /\ exclude_patterns \in SeqsUpTo(GlobPatterns, MaxPatterns)
    /\ ignore_patterns \in SeqsUpTo(IgnoreEntries, MaxPatterns)
    /\ PatternCount <= MaxTotalPatterns
    /\ f_checked = FALSE
    /\ f_kept = FALSE
    /\ f_prev = FALSE
    /\ f_op = "none"
    /\ TreeIdle
    /\ RefIdle
    /\ RenderIdle
    /\ SearchIdle

\* the filter test of the loop of build_tree on the entry f_path
FilterCheck ==
    /\ ~f_checked
    /\ f_checked' = TRUE
    /\ f_kept' = EntryKept(f_path, include_patterns, exclude_patterns,
                           ignore_patterns)
    /\ f_prev' = f_kept
    /\ f_op' = "check"
    /\ UNCHANGED <<f_path, include_patterns, exclude_patterns, ignore_patterns>>
    /\ UNCHANGED <<provider, max_depth, treeVars, runVars, refVars, renderVars,
                 searchVars>>

\* the same entry filtered again with one more ignore substring
FilterAddIgnore ==
    /\ f_checked
    /\ Len(ignore_patterns) < MaxPatterns
    /\ PatternCount < MaxTotalPatterns
    /\ \E s \in IgnoreEntries :
         /\ ignore_patterns' = Append(ignore_patterns, s)
         /\ f_kept' = EntryKept(f_path, include_patterns, exclude_patterns,
                                Append(ignore_patterns, s))
    /\ f_prev' = f_kept
    /\ f_op' = "add_ignore"
    /\ UNCHANGED <<f_path, f_checked, include_patterns, exclude_patterns>>
    /\ UNCHANGED <<provider, max_depth, treeVars, runVars, refVars, renderVars,
                 searchVars>>

Swap(list, i) ==
    [k \in DOMAIN list |-> IF k = i THEN list[i + 1]
                           ELSE IF k = i + 1 THEN list[i] ELSE list[k]]

\* the same entry filtered again with two neighbours of one list exchanged
FilterReorder ==
    /\ f_checked
    /\ \E l \in {"include", "exclude", "ignore"} :
         LET list == IF l = "include" THEN include_patterns
                     ELSE IF l = "exclude" THEN exclude_patterns
                     ELSE ignore_patterns
         IN  \E i \in 1..(Len(list) - 1) :
               /\ list[i] # list[i + 1]
               /\ include_patterns' = IF l = "include" THEN Swap(list, i)
                                      ELSE include_patterns
               /\ exclude_patterns' = IF l = "exclude" THEN Swap(list, i)
                                      ELSE exclude_patterns
               /\ ignore_patterns' = IF l = "ignore" THEN Swap(list, i)
                                     ELSE ignore_patterns
    /\ f_kept' = EntryKept(f_path, include_patterns', exclude_patterns',
                           ignore_patterns')
    /\ f_prev' = f_kept
    /\ f_op' = "reorder"
    /\ UNCHANGED <<f_path, f_checked>>
    /\ UNCHANGED <<provider, max_depth, treeVars, runVars, refVars, renderVars,
                 searchVars>>

NextFilter ==
    \/ FilterCheck
    \/ FilterAddIgnore
    \/ FilterReorder

SpecFilter == InitFilter /\ [][NextFilter]_vars

\* the rule of the specification, stated over the lists as sets
ReferenceRule(path, include, exclude, ignore) ==
    /\ \/ Len(include) = 0
       \/ \E i \in DOMAIN include :
            PatternIsOk(include[i]) /\ MatchesFrom(include[i], 1, path, 1)
    /\ ~ \/ \E i \in DOMAIN exclude :
              PatternIsOk(exclude[i]) /\ MatchesFrom(exclude[i], 1, path, 1)
         \/ \E i \in DOMAIN ignore : Contains(path, ignore[i])

\* C9: the filter of build_tree keeps an entry iff (include is empty or
\* some include glob matches) and not (some exclude glob matches or some
\* ignore entry is a substring of the path)
C9_FilterIsRule ==
    f_checked =>
        f_kept = ReferenceRule(f_path, include_patterns, exclude_patterns,
                               ignore_patterns)

\* an entry kept although all three lists have entries, one of them malformed
C9_Witness ==
    /\ f_op = "check"
    /\ f_kept
    /\ Len(include_patterns) = 2
    /\ Len(exclude_patterns) = 2
    /\ ignore_patterns # <<>>
    /\ \E i \in DOMAIN exclude_patterns : ~PatternIsOk(exclude_patterns[i])

\* C10: one more ignore substring never turns an excluded path into an
\* included one, and exchanging entries of a list never changes the verdict
C10_MonotoneAndOrderFree ==
    /\ f_op = "add_ignore" => (f_kept => f_prev)
    /\ f_op = "reorder" => (f_kept = f_prev)

\* the added substring excluded a path that was included before
C10_Witness ==
    /\ f_op = "add_ignore"
    /\ f_prev
    /\ ~f_kept
    /\ include_patterns # <<>>

(***************************************************************************)
(* Reference resolution: get_tree_structure and get_file_content           *)
(*                                                                         *)
(* A repository path is the sequence of its '/'-separated pieces; a        *)
(* reference is such a sequence too (a branch name may contain '/').       *)
(***************************************************************************)
\* repo_path.split('/').filter(|s| !s.is_empty())
RECURSIVE NonEmptySegments(_)
NonEmptySegments(pieces) ==
    IF pieces = <<>> THEN <<>>
    ELSE IF Head(pieces) = "" THEN NonEmptySegments(Tail(pieces))
    ELSE <<Head(pieces)>> \o NonEmptySegments(Tail(pieces))

\* GitHubProvider::parse_repo_path
GitHubParseRepoPath(repo_path) ==
    LET segments == NonEmptySegments(repo_path)
    IN  IF Len(segments) < 2
        THEN [ok |-> FALSE, owner |-> "", repo |-> "", branch |-> None,
              path |-> None]
        ELSE [ok |-> TRUE,
              owner |-> segments[1],
              repo |-> segments[2],
              branch |-> IF Len(segments) > 3
                            /\ (segments[3] = "tree" \/ segments[3] = "blob")
                         THEN Some(<<segments[4]>>) ELSE None,
              path |-> IF Len(segments) > 4
                       THEN Some(SubSeq(segments, 5, Len(segments))) ELSE None]

\* repo_path.split("/-/"): a piece "-" that has a '/' on both sides
\* separates; the search resumes after the separator
RECURSIVE SplitDash(_)
SplitDash(pieces) ==
    LET seps == {i \in 2..(Len(pieces) - 1) : pieces[i] = "-"}
    IN  IF seps = {} THEN <<pieces>>
        ELSE LET i == CHOOSE k \in seps : \A m \in seps : k <= m
             IN  <<SubSeq(pieces, 1, i - 1)>>
                 \o SplitDash(SubSeq(pieces, i + 1, Len(pieces)))

\* urlencoding::encode: every '/' becomes "%2F"
RECURSIVE UrlEncode(_)
UrlEncode(pieces) ==
    IF Len(pieces) <= 1 THEN pieces
    ELSE <<Head(pieces), "%2F">> \o UrlEncode(Tail(pieces))

\* GitLabProvider::parse_repo_path: never fails
GitLabParseRepoPath(repo_path) ==
    LET segments == SplitDash(repo_path)
    IN  [ok |-> TRUE,
         encoded_path |-> UrlEncode(repo_path),
         branch |-> IF Len(segments) > 1
                    THEN (IF Len(segments[2]) >= 2 /\ segments[2][1] = "tree"
                          THEN Some(SubSeq(segments[2], 2, Len(segments[2])))
                          ELSE None)
                    ELSE None]

\* the three GitLab fetchers apply urlencoding::encode to the path they
\* are given, which get_tree_structure and get_file_content have encoded
\* already: the '%' of every "%2F" becomes "%25"
UrlEncodeAgain(encoded) ==
    [i \in DOMAIN encoded |->
        IF encoded[i] = "%2F" THEN "%252F" ELSE encoded[i]]

\* the repository part of the URL of a request, as characters and
\* separators: repos/{owner}/{repo} (GitHub), projects/{id} (GitLab)
RequestRepo(p, repo_path) ==
    IF p = "github"
    THEN LET parsed == GitHubParseRepoPath(repo_path)
         IN  <<parsed.owner, "/", parsed.repo>>
    ELSE UrlEncodeAgain(GitLabParseRepoPath(repo_path).encoded_path)

Request(what) == [what |-> what, repo |-> RequestRepo(provider, r_req.repo_path)]

\* how a metadata request can end
MetadataResponses ==
    { [kind |-> k, default_branch |-> None] :
        k \in {"transport_error", "unparsable", "message"} }
    \cup { [kind |-> "project", default_branch |-> remote_default] }

\* GitHubProvider::fetch_repo_metadata: default_branch is a String, so only
\* a project object that carries one decodes
GitHubFetchRepoMetadata(resp) ==
    IF resp.kind = "project" /\ resp.default_branch # None
    THEN [ok |-> TRUE, default_branch |-> resp.default_branch[1]]
    ELSE [ok |-> FALSE, default_branch |-> <<>>]

\* GitLabProvider::fetch_repo_metadata: only a send error is an error; a
\* body that does not decode, or has no default_branch, gives None
GitLabFetchRepoMetadata(resp) ==
    IF resp.kind = "transport_error"
    THEN [ok |-> FALSE, default_branch |-> None]
    ELSE IF resp.kind = "project"
    THEN [ok |-> TRUE, default_branch |-> resp.default_branch]
    ELSE [ok |-> TRUE, default_branch |-> None]

\* mutant: the branch of the path wins over an explicit Branch
GitHubRefName_PathFirst(git_ref, path_branch, default_branch) ==
    IF path_branch # None THEN path_branch
    ELSE IF git_ref.kind \in {"Branch", "Tag", "Commit"} THEN Some(git_ref.name)
    ELSE Some(default_branch)

\* GitHub, `let ref_name = match git_ref { .. }` of both operations
GitHubRefName(git_ref, path_branch, default_branch) ==
    IF git_ref.kind = "Branch" THEN Some(git_ref.name)
    ELSE IF git_ref.kind = "Tag" THEN Some(git_ref.name)
    ELSE IF git_ref.kind = "Commit" THEN Some(git_ref.name)
    ELSE IF git_ref.kind = "Default" THEN Some(default_branch)
    ELSE IF path_branch = None THEN Some(default_branch)
    ELSE path_branch

\* GitLab, `let ref_name = match git_ref { .. }` of both operations;
\* default_branch is the Option of the metadata
GitLabRefName(git_ref, path_branch, default_branch) ==
    IF git_ref.kind = "Branch" THEN Some(git_ref.name)
    ELSE IF git_ref.kind = "Tag" THEN Some(git_ref.name)
    ELSE IF git_ref.kind = "Commit" THEN Some(git_ref.name)
    ELSE IF git_ref.kind = "Default" THEN default_branch
    ELSE path_branch

GitRefs ==
    { NoRef,
      [kind |-> "Default", name |-> <<>>],
      [kind |-> "Branch", name |-> <<"dev">>],
      [kind |-> "Tag", name |-> <<"v1">>],
      [kind |-> "Commit", name |-> <<"c0ffee">>] }

RepoPaths ==
    { <<"o", "r">>,
      <<"o", "">>,
      <<"o", "r", "tree", "m">>,
      <<"o", "r", "blob", "m", "a">>,
      <<"o", "r", "-", "tree", "m">>,
      <<"o", "r", "-", "blob", "m">> }

InitRef ==
    /\ provider \in Providers
    /\ r_req \in [op : {"tree", "file"}, git_ref : GitRefs, repo_path : RepoPaths]
    /\ remote_default \in {None, Some(<<"main">>)}
    /\ r_pc = "start"
    /\ r_path_branch = None
    /\ r_metadata = "none"
    /\ r_ref_name = None
    /\ r_calls = {}
    /\ r_outcome = "pending"
    /\ r_requests = {}
    /\ r_answer = NoAnswer
    /\ t_args = NoArgs
    /\ max_depth = 0
    /\ include_patterns = <<>>
    /\ exclude_patterns = <<>>
    /\ ignore_patterns = <<>>
    /\ frames = <<>>
    /\ fetched = {}
    /\ listed = 0
    /\ result = Pending
    /\ RunIdle
    /\ FilterIdle
    /\ RenderIdle
    /\ SearchIdle

RefFrame == UNCHANGED <<paramVars, treeVars, runVars, filterVars, renderVars,
                        searchVars, r_req, remote_default, t_args>>

\* the first Content Fetcher call an operation makes with its ref_name
FirstCall(p, op, ref_name) ==
    IF op = "file" THEN [what |-> "file", ref |-> ref_name]
    ELSE IF p = "github" THEN [what |-> "gitignore", ref |-> ref_name]
    ELSE [what |-> "listing", ref |-> ref_name]

FirstCallPc(p, op) == IF op = "tree" /\ p = "github" THEN "gitignore" ELSE "fetch"

\* GitHub, either operation: parse the path, then request the metadata
GitHubCall ==
    /\ provider = "github"
    /\ r_pc = "start"
    /\ LET parsed == GitHubParseRepoPath(r_req.repo_path)
       IN  IF parsed.ok
           THEN /\ r_path_branch' = parsed.branch
                /\ r_pc' = "metadata"
                /\ r_outcome' = r_outcome
                /\ r_requests' = r_requests \cup {Request("metadata")}
           ELSE /\ r_path_branch' = r_path_branch
                /\ r_pc' = "done"
                /\ r_outcome' = "err"
                /\ r_requests' = r_requests
    /\ UNCHANGED <<r_metadata, r_ref_name, r_calls, r_answer>>
    /\ RefFrame

\* GitLab get_tree_structure: parse the path, then request the metadata
GitLabTreeCall ==
    /\ provider = "gitlab"
    /\ r_pc = "start"
    /\ r_req.op = "tree"
    /\ r_path_branch' = GitLabParseRepoPath(r_req.repo_path).branch
    /\ r_pc' = "metadata"
    /\ r_requests' = r_requests \cup {Request("metadata")}
    /\ UNCHANGED <<r_metadata, r_ref_name, r_calls, r_outcome, r_answer>>
    /\ RefFrame

\* GitLab get_file_content: the metadata is requested in the Default arm
\* only; every other arm goes straight to the file request
GitLabFileCall ==
    /\ provider = "gitlab"
    /\ r_pc = "start"
    /\ r_req.op = "file"
    /\ LET branch == GitLabParseRepoPath(r_req.repo_path).branch
           ref_name == GitLabRefName(r_req.git_ref, branch, None)
       IN  /\ r_path_branch' = branch
           /\ IF r_req.git_ref.kind = "Default"
              THEN /\ r_pc' = "metadata"
                   /\ r_requests' = r_requests \cup {Request("metadata")}
                   /\ UNCHANGED <<r_ref_name, r_calls>>
              ELSE /\ r_pc' = "fetch"
                   /\ r_ref_name' = ref_name
                   /\ r_calls' = r_calls \cup {FirstCall("gitlab", "file", ref_name)}
                   /\ r_requests' = r_requests \cup {Request("file")}
    /\ UNCHANGED <<r_metadata, r_outcome, r_answer>>
    /\ RefFrame

\* the metadata request ends: `?` on an error, else the reference is
\* resolved and the first Content Fetcher call is made with it
MetadataReturn ==
    /\ r_pc = "metadata"
    /\ \E resp \in MetadataResponses :
         LET m == IF provider = "github" THEN GitHubFetchRepoMetadata(resp)
                  ELSE GitLabFetchRepoMetadata(resp)
             ref_name == IF provider = "github"
                         THEN GitHubRefName(r_req.git_ref, r_path_branch,
                                            m.default_branch)
                         ELSE GitLabRefName(r_req.git_ref, r_path_branch,
                                            m.default_branch)
         IN  /\ r_metadata' = resp.kind
             /\ IF m.ok
                THEN /\ r_ref_name' = ref_name
                     /\ r_calls' = r_calls \cup {FirstCall(provider, r_req.op, ref_name)}
                     /\ r_requests' = r_requests \cup
                          {Request(FirstCall(provider, r_req.op, ref_name).what)}
                     /\ r_pc' = FirstCallPc(provider, r_req.op)
                     /\ r_outcome' = r_outcome
                ELSE /\ r_pc' = "done"
                     /\ r_outcome' = "err"
                     /\ UNCHANGED <<r_ref_name, r_calls, r_requests>>
    /\ UNCHANGED <<r_path_branch, r_answer>>
    /\ RefFrame

\* GitHub set_ignore_patterns: whatever the .gitignore request gave is
\* dropped; build_tree then lists the root with the same reference
GitignoreReturn ==
    /\ r_pc = "gitignore"
    /\ r_calls' = r_calls \cup {[what |-> "listing", ref |-> r_ref_name]}
    /\ r_requests' = r_requests \cup {Request("listing")}
    /\ r_pc' = "fetch"
    /\ UNCHANGED <<r_path_branch, r_metadata, r_ref_name, r_outcome, r_answer>>
    /\ RefFrame

\* the HTTP exchanges the listing of the root or a file request can end
\* in: a status and a body. Bodies: "file" a JSON object with base64
\* content, "message" a JSON object without it (the error object of either
\* API), "listing" a JSON array, the others are not JSON
ErrorAnswers ==
    { [status |-> 0, kind |-> "transport_error"],
      [status |-> 404, kind |-> "message"],
      [status |-> 404, kind |-> "not_found"],
      [status |-> 403, kind |-> "message"],
      [status |-> 403, kind |-> "rate_limit"],
      [status |-> 200, kind |-> "unparsable"] }

FileAnswers ==
    ErrorAnswers \cup { [status |-> 200, kind |-> "file"],
                        [status |-> 200, kind |-> "listing"] }

\* GitHubProvider::fetch_file_content: the status is not looked at; only
\* an object with a "content" string is a file
GitHubFetchFileContent(answer) == answer.kind = "file"

\* GitLabProvider::fetch_file_content: a client-error status is an error,
\* then the body must decode as GitLabFileContent
GitLabFetchFileContent(answer) ==
    /\ answer.kind # "transport_error"
    /\ ~(answer.status >= 400 /\ answer.status < 500)
    /\ answer.kind = "file"

\* how build_tree can end once its root listing gave `r`: `?` on a failed
\* listing; on GitHub a nested listing may still fail, on GitLab a failed
\* child is only printed
BuildOutcomes(p, r) ==
    IF ~r.ok THEN {"err"}
    ELSE IF p = "github"
            /\ \E i \in DOMAIN r.items : r.items[i].item_type = "Directory"
    THEN {"ok", "err"}
    ELSE {"ok"}

\* the file request ends
FileReturn ==
    /\ r_pc = "fetch"
    /\ r_req.op = "file"
    /\ \E answer \in FileAnswers :
         /\ r_answer' = answer
         /\ r_outcome' = IF (IF provider = "github"
                             THEN GitHubFetchFileContent(answer)
                             ELSE GitLabFetchFileContent(answer))
                         THEN "ok" ELSE "err"
    /\ r_pc' = "done"
    /\ UNCHANGED <<r_path_branch, r_metadata, r_ref_name, r_calls, r_requests>>
    /\ RefFrame

\* the listing of the root ends, and the build that follows it
ListingReturn ==
    /\ r_pc = "fetch"
    /\ r_req.op = "tree"
    /\ \E answer \in ErrorAnswers \cup {[status |-> 200, kind |-> "listing"]} :
       \E resp \in Responses(provider, 1) :
         /\ resp.kind = answer.kind
         /\ r_answer' = answer
         /\ r_outcome' \in BuildOutcomes(provider,
                               IF provider = "github"
                               THEN fetch_contents(<<>>, resp)
                               ELSE fetch_repository_tree(<<>>, resp))
    /\ r_pc' = "done"
    /\ UNCHANGED <<r_path_branch, r_metadata, r_ref_name, r_calls, r_requests>>
    /\ RefFrame

NextRef ==
    \/ GitHubCall
    \/ GitLabTreeCall
    \/ GitLabFileCall
    \/ MetadataReturn
    \/ GitignoreReturn
    \/ FileReturn
    \/ ListingReturn

SpecRef == InitRef /\ [][NextRef]_vars

(***************************************************************************)
(* Properties of the reference resolution                                  *)
(***************************************************************************)
\* the branch a repository path embeds, by the grammar of the identifier:
\* owner/repo/tree|blob/ref[/subpath] (GitHub), namespace/repo/-/tree/ref
\* (GitLab)
EmbeddedBranch(p, repo_path) ==
    IF p = "github"
    THEN (IF Len(repo_path) >= 4 /\ repo_path[3] \in {"tree", "blob"}
          THEN <<<<repo_path[4]>>>> ELSE <<>>)
    ELSE (IF Len(repo_path) >= 5 /\ repo_path[3] = "-" /\ repo_path[4] = "tree"
          THEN <<SubSeq(repo_path, 5, Len(repo_path))>> ELSE <<>>)

ExplicitRef == r_req.git_ref.kind \in {"Branch", "Tag", "Commit"}

\* C6: with an explicit Branch, Tag or Commit every Content Fetcher call
\* carries exactly that name, whatever branch the path embeds; with no
\* explicit reference and a branch in the path, it carries the path's branch
C6_ExplicitThenPath ==
    \A c \in r_calls :
        /\ ExplicitRef => c.ref = <<r_req.git_ref.name>>
        /\ (r_req.git_ref.kind = "None"
              /\ EmbeddedBranch(provider, r_req.repo_path) # <<>>)
             => c.ref = EmbeddedBranch(provider, r_req.repo_path)

\* Branch("dev") given with a path that embeds branch m: the listing of the
\* tree was requested at dev
C6_Witness ==
    /\ r_pc = "done"
    /\ r_outcome = "ok"
    /\ r_req.op = "tree"
    /\ r_req.git_ref = [kind |-> "Branch", name |-> <<"dev">>]
    /\ EmbeddedBranch(provider, r_req.repo_path) = <<<<"m">>>>
    /\ [what |-> "listing", ref |-> <<<<"dev">>>>] \in r_calls

\* C7: with no explicit reference and no branch in the path, the default
\* branch is fetched and every Content Fetcher call carries it
C7_DefaultBranchPassed ==
    (/\ r_req.git_ref.kind = "None"
     /\ EmbeddedBranch(provider, r_req.repo_path) = <<>>
     /\ remote_default # <<>>)
        => /\ r_calls # {} => r_metadata = "project"
           /\ \A c \in r_calls : c.ref = remote_default

NeedsDefault ==
    \/ r_req.git_ref.kind = "Default"
    \/ /\ r_req.git_ref.kind = "None"
       /\ EmbeddedBranch(provider, r_req.repo_path) = <<>>

NoDefaultObtained ==
    \/ r_metadata \in {"transport_error", "unparsable", "message"}
    \/ r_metadata = "project" /\ remote_default = <<>>

\* C8: when the default branch is needed and its fetch fails or yields
\* none, the operation fails and no Content Fetcher call is made
C8_NoDefaultIsHardError ==
    (NeedsDefault /\ NoDefaultObtained)
        => /\ r_calls = {}
           /\ r_pc = "done"
           /\ r_outcome = "err"

(***************************************************************************)
(* create_tree_structure: the rendering of a RepoNode                      *)
(*                                                                         *)
(* A rendered string is the sequence of its characters; the box-drawing    *)
(* characters are written by their code points.                            *)
(***************************************************************************)
Corner == "U+2514"
Tee == "U+251C"
Dash == "U+2500"
Bar == "U+2502"
Newline == "\n"

\* `let marker = if is_last { .. } else { .. }`
Marker(is_last) ==
    IF is_last THEN <<Corner, Dash, Dash, " ">> ELSE <<Tee, Dash, Dash, " ">>

\* mutant: the continuation bar is drawn under a last sibling
ChildPrefix_Swapped(is_last) ==
    IF is_last THEN <<Bar, " ", " ", " ">> ELSE <<" ", " ", " ", " ">>

\* `let child_prefix = if is_last { .. } else { .. }`
ChildPrefix(is_last) ==
    IF is_last THEN <<" ", " ", " ", " ">> ELSE <<Bar, " ", " ", " ">>

RECURSIVE create_tree_structure(_, _, _), RenderChildren(_, _, _)
\* the line of the node, then its children
create_tree_structure(node, prefix, is_last) ==
    prefix \o Marker(is_last) \o node.name \o <<Newline>>
    \o RenderChildren(node, prefix \o ChildPrefix(is_last), 1)

\* `for (i, child) in node.children.iter().enumerate()`, from the i-th on
RenderChildren(node, child_prefix, i) ==
    IF i > Len(node.children) THEN <<>>
    ELSE create_tree_structure(node.children[i], child_prefix,
                               i = Len(node.children))
         \o RenderChildren(node, child_prefix, i + 1)

\* most children a rendered node has
MaxChildren == 2

RECURSIVE TotalOf(_, _)
TotalOf(children, field) ==
    IF children = <<>> THEN 0
    ELSE (IF field = "size" THEN Head(children).size
          ELSE IF field = "file_count" THEN Head(children).file_count
          ELSE Head(children).dir_count)
         + TotalOf(Tail(children), field)

\* a directory node as build_tree aggregates it
DirNode(name, children) ==
    [name |-> name, node_type |-> "Directory",
     size |-> TotalOf(children, "size"), children |-> children,
     file_count |-> TotalOf(children, "file_count"),
     dir_count |-> 1 + TotalOf(children, "dir_count")]

RenderLeaves == { FileNode(<<"a", ".", "t", "x", "t">>, 1), FileNode(<<"b">>, 0) }
RenderInner ==
    RenderLeaves \cup
    { DirNode(<<"s", "r", "c">>, cs) : cs \in SeqsUpTo(RenderLeaves, MaxChildren) }
RenderRoots ==
    { DirNode(<<"r", "o", "o", "t">>, cs) : cs \in SeqsUpTo(RenderInner, MaxChildren) }

InitRender ==
    /\ rn_in \in [node : RenderRoots,
                  prefix : {<<>>, <<Bar, " ", " ", " ">>},
                  is_last : BOOLEAN]
    /\ rn_out = <<>>
    /\ TreeIdle
    /\ include_patterns = <<>>
    /\ exclude_patterns = <<>>
    /\ ignore_patterns = <<>>
    /\ FilterIdle
    /\ RefIdle
    /\ SearchIdle

\* create_tree_structure(&node, prefix, is_last)
RenderCall ==
    /\ rn_out = <<>>
    /\ rn_out' = create_tree_structure(rn_in.node, rn_in.prefix, rn_in.is_last)
    /\ UNCHANGED <<rn_in, paramVars, treeVars, runVars, filterVars, refVars,
                   searchVars>>

NextRender == RenderCall

SpecRender == InitRender /\ [][NextRender]_vars

\* ---- the rendering, line by line ---------------------------------------
\* the positions of the nodes of a tree, in the order parent, then each
\* child's subtree in children order; a position is the path of indices
RECURSIVE PreOrder(_, _), PreOrderFrom(_, _, _)
PreOrder(node, pos) == <<pos>> \o PreOrderFrom(node, pos, 1)
PreOrderFrom(node, pos, i) ==
    IF i > Len(node.children) THEN <<>>
    ELSE PreOrder(node.children[i], Append(pos, i))
         \o PreOrderFrom(node, pos, i + 1)

RECURSIVE NodeAt(_, _)
NodeAt(node, pos) ==
    IF pos = <<>> THEN node ELSE NodeAt(node.children[Head(pos)], Tail(pos))

\* is the node at the first k indices of pos the last of its siblings
IsLastAt(root, pos, k, root_is_last) ==
    IF k = 0 THEN root_is_last
    ELSE pos[k] = Len(NodeAt(root, SubSeq(pos, 1, k - 1)).children)

\* the indentation the ancestors at levels k.. contribute to a line
RECURSIVE Indent(_, _, _, _)
Indent(root, pos, k, root_is_last) ==
    IF k >= Len(pos) THEN <<>>
    ELSE (IF IsLastAt(root, pos, k, root_is_last)
          THEN <<" ", " ", " ", " ">> ELSE <<"U+2502", " ", " ", " ">>)
         \o Indent(root, pos, k + 1, root_is_last)

LineAt(root, pos, prefix, root_is_last) ==
    prefix \o Indent(root, pos, 0, root_is_last)
    \o (IF IsLastAt(root, pos, Len(pos), root_is_last)
        THEN <<"U+2514", "U+2500", "U+2500", " ">>
        ELSE <<"U+251C", "U+2500", "U+2500", " ">>)
    \o NodeAt(root, pos).name \o <<"\n">>

RECURSIVE LinesOf(_, _, _, _)
LinesOf(root, positions, prefix, root_is_last) ==
    IF positions = <<>> THEN <<>>
    ELSE LineAt(root, Head(positions), prefix, root_is_last)
         \o LinesOf(root, Tail(positions), prefix, root_is_last)

\* root, with the one directory src, with the one file a.txt
ExampleTree ==
    DirNode(<<"r", "o", "o", "t">>,
            << DirNode(<<"s", "r", "c">>,
                       << FileNode(<<"a", ".", "t", "x", "t">>, 1) >>) >>)

ExampleRendering ==
    <<"U+2514", "U+2500", "U+2500", " ", "r", "o", "o", "t", "\n">>
    \o <<" ", " ", " ", " ",
         "U+2514", "U+2500", "U+2500", " ", "s", "r", "c", "\n">>
    \o <<" ", " ", " ", " ", " ", " ", " ", " ",
         "U+2514", "U+2500", "U+2500", " ", "a", ".", "t", "x", "t", "\n">>

\* C13: the rendering is one line per node, parent before children and
\* children in order; a line is the prefix, four columns per ancestor
\* level (blank under a last sibling, a bar otherwise), the marker of the
\* node (corner if last, tee otherwise), its name and a newline; a child is
\* last iff it is the final element of children. The example tree
\* root/src/a.txt renders as the three lines of the snapshot
C13_RenderedLines ==
    rn_out # <<>> =>
        /\ rn_out = LinesOf(rn_in.node, PreOrder(rn_in.node, <<>>),
                            rn_in.prefix, rn_in.is_last)
        /\ (rn_in = [node |-> ExampleTree, prefix |-> <<>>, is_last |-> TRUE])
             => rn_out = ExampleRendering

\* a rendered tree whose first child is a directory with a child of its
\* own and is not the last: its subtree is drawn under a bar
C13_Witness ==
    /\ rn_out # <<>>
    /\ Len(rn_in.node.children) = 2
    /\ rn_in.node.children[1].children # <<>>
    /\ rn_in.prefix = <<>>
    /\ rn_in.is_last

(***************************************************************************)
(* get_tree_structure called twice with the same arguments, against a      *)
(* remote that answers identical calls identically                         *)
(***************************************************************************)
\* the repository name the root of the rendered tree carries
RepoName == <<"r">>

\* `let tree_node = RepoNode { name: repo.clone(), ..root_node }`
TreeNode(root_node) == [root_node EXCEPT !.name = RepoName]

\* longest root listing of the fixed remotes
TwiceEntries == 2

\* what the fixed remotes answer for a directory of the root
ChildAnswers(p) ==
    { [kind |-> "transport_error", entries |-> <<>>],
      [kind |-> "message", entries |-> <<>>],
      [kind |-> "listing",
       entries |-> << [name |-> <<"b">>, type |-> FileType(p), size |-> Some(2)] >>],
      [kind |-> "listing",
       entries |-> << [name |-> <<"a">>, type |-> FileType(p), size |-> None],
                      [name |-> <<"b">>, type |-> FileType(p), size |-> Some(2)] >>],
      [kind |-> "listing",
       entries |-> << [name |-> <<"a">>, type |-> DirType(p), size |-> None] >>] }

\* what the fixed remotes answer for the root: a listing that names no
\* entry twice, or the request fails or finds nothing
RootAnswers(p) ==
    { [kind |-> "listing", entries |-> es] :
        es \in { l \in UNION { [1..m -> RawEntries(p)] : m \in 0..TwiceEntries } :
                    \A i, j \in DOMAIN l : i # j => l[i] # l[j] } }
    \cup { [kind |-> k, entries |-> <<>>] : k \in {"transport_error", "not_found"} }

\* the fixed remotes: the answer for the root and for its directories
Remotes(p) ==
    { (<<>> :> ra) @@ (<<"a">> :> ca) @@ (<<"b">> :> cb) :
        ra \in RootAnswers(p), ca \in ChildAnswers(p), cb \in ChildAnswers(p) }

InitTwice ==
    /\ provider \in Providers
    /\ max_depth = MaxDepthBound
    /\ \E fs \in TreeFilters :
         /\ include_patterns = fs[1]
         /\ exclude_patterns = fs[2]
         /\ ignore_patterns = fs[3]
    /\ frames = (RootId :> NewFrame(<<>>, 0))
    /\ fetched = {}
    /\ listed = 0
    /\ result = Pending
    /\ served \in Remotes(provider)
    /\ run = 1
    /\ outputs = <<>>
    /\ FilterIdle
    /\ RefIdle
    /\ RenderIdle
    /\ SearchIdle

\* build_tree of the root has returned: `?`, or the tree is renamed,
\* rendered and returned
TreeViewReturn ==
    /\ run > 0
    /\ Len(outputs) < run
    /\ result.status # "pending"
    /\ outputs' = Append(outputs,
                    [status |-> result.status,
                     node |-> result.node,
                     text |-> IF result.status = "ok"
                              THEN create_tree_structure(TreeNode(result.node),
                                                         <<>>, TRUE)
                              ELSE <<>>,
                     completed |-> frames[RootId].completed])
    /\ UNCHANGED <<treeVars, served, run>>
    /\ UNCHANGED <<paramVars, filterVars, refVars, renderVars, searchVars>>

\* the same call is made again: build_tree starts anew from the root
SecondCall ==
    /\ run = 1
    /\ Len(outputs) = 1
    /\ run' = 2
    /\ frames' = (RootId :> NewFrame(<<>>, 0))
    /\ result' = Pending
    /\ UNCHANGED <<fetched, listed, served, outputs>>
    /\ UNCHANGED <<paramVars, filterVars, refVars, renderVars, searchVars>>

NextTwice ==
    \/ \E id \in DOMAIN frames : DepthStop(id)
    \/ \E id \in DOMAIN frames : FetchCall(id)
    \/ \E id \in DOMAIN frames : GitHubFetchReturn(id)
    \/ \E id \in DOMAIN frames : GitHubSkip(id)
    \/ \E id \in DOMAIN frames : GitHubFile(id)
    \/ \E id \in DOMAIN frames : GitHubDir(id)
    \/ \E id \in DOMAIN frames : GitHubFinish(id)
    \/ \E id \in DOMAIN frames : GitLabFetchReturn(id)
    \/ \E id \in DOMAIN frames : GitLabJoin(id)
    \/ TreeViewReturn
    \/ SecondCall

SpecTwice == InitTwice /\ [][NextTwice]_vars

\* C11: two calls with the same arguments against a remote that answers
\* identical calls identically end the same way, and when they succeed
\* their rendered outputs are the same string
C11_Idempotent ==
    Len(outputs) = 2 =>
        /\ outputs[1].status = outputs[2].status
        /\ outputs[1].text = outputs[2].text

\* both calls returned a rendered tree that holds a file under a directory
C11_Witness ==
    /\ Len(outputs) = 2
    /\ outputs[2].status = "ok"
    /\ \E i \in DOMAIN outputs[2].node.children :
         outputs[2].node.children[i].file_count > 0

\* C12: on GitLab, whatever the order in which the sibling builds complete,
\* build_tree returns the same tree, children in the same order, and the
\* rendered string is the same
C12_OrderOfCompletionUnseen ==
    (provider = "gitlab" /\ Len(outputs) = 2 /\ outputs[1].status = "ok")
        => /\ outputs[2].status = "ok"
           /\ outputs[2].node = outputs[1].node
           /\ outputs[2].text = outputs[1].text

\* two GitLab builds of the same tree whose sibling directories completed
\* in different orders, and both siblings are in the tree
C12_Witness ==
    /\ provider = "gitlab"
    /\ Len(outputs) = 2
    /\ outputs[1].status = "ok"
    /\ outputs[1].completed # outputs[2].completed
    /\ Len(outputs[1].node.children) >= 2
    /\ outputs[1].node.children[1].name # outputs[1].node.children[2].name
    /\ outputs[1].node.children[2].node_type = "Directory"

(***************************************************************************)
(* Repository search: FindRepositories::execute over both providers        *)
(***************************************************************************)
\* most repositories one provider returns
MaxResults == 2

\* what a provider may report for one repository
RawRepos ==
    { [full_name |-> "x/y", stars |-> 5],
      [full_name |-> "a/b", stars |-> 50],
      [full_name |-> "c/d", stars |-> 5] }

\* the HTTP exchanges a search request can end in: the send fails; a status
\* that is not a success; with a success status, a body that is not the
\* expected JSON and holds "rate limit", or holds "items":[], or neither;
\* the results
SearchResponses ==
    { [kind |-> k, repos |-> <<>>] :
        k \in {"transport_error", "status_error", "rate_limit", "no_items",
               "unparsable"} }
    \cup
    { [kind |-> "results", repos |-> rs] :
        rs \in UNION { [1..m -> RawRepos] : m \in 0..MaxResults } }

\* query.trim().is_empty()
RECURSIVE IsBlank(_)
IsBlank(query) ==
    \/ query = <<>>
    \/ Head(query) = " " /\ IsBlank(Tail(query))

SearchErr == [ok |-> FALSE, repos |-> <<>>]
SearchOk(repos) == [ok |-> TRUE, repos |-> repos]

\* GitHubProvider::search_repositories, from the response on
GitHubSearchRepositories(resp) ==
    IF resp.kind = "results" THEN SearchOk(resp.repos)
    ELSE IF resp.kind = "no_items" THEN SearchOk(<<>>)
    ELSE SearchErr

\* GitLabProvider::search_repositories, from the response on: with a
\* success status every body that does not decode is an empty result
GitLabSearchRepositories(resp) ==
    IF resp.kind = "results" THEN SearchOk(resp.repos)
    ELSE IF resp.kind \in {"transport_error", "status_error"} THEN SearchErr
    ELSE SearchOk(<<>>)

\* find_repositories: the provider's items in the common format
ToSearchResults(p, r) ==
    [ok |-> r.ok,
     repos |-> [k \in DOMAIN r.repos |->
                  [provider |-> p, full_name |-> r.repos[k].full_name,
                   stargazers_count |-> r.repos[k].stars]]]

\* the providers in the order of `self.providers`
ProviderOrder == <<"github", "gitlab">>

\* mutant: the merge ends at the first provider that failed
RECURSIVE Surviving_UntilFailure(_)
Surviving_UntilFailure(rs) ==
    IF rs = <<>> THEN <<>>
    ELSE IF Head(rs).ok THEN Head(rs).repos \o Surviving_UntilFailure(Tail(rs))
    ELSE <<>>

\* `.filter_map(|result| result.ok()).flatten().collect()`
RECURSIVE Surviving(_)
Surviving(rs) ==
    IF rs = <<>> THEN <<>>
    ELSE (IF Head(rs).ok THEN Head(rs).repos ELSE <<>>) \o Surviving(Tail(rs))

\* mutant: least popular first
StarsCmp_Ascending(a, b) ==
    IF a.stargazers_count < b.stargazers_count THEN -1
    ELSE IF a.stargazers_count > b.stargazers_count THEN 1 ELSE 0

\* `|a, b| b.stargazers_count.cmp(&a.stargazers_count)`
StarsCmp(a, b) ==
    IF b.stargazers_count < a.stargazers_count THEN -1
    ELSE IF b.stargazers_count > a.stargazers_count THEN 1 ELSE 0

\* sort_by is stable: an element goes after the elements it is not less than
RECURSIVE InsertByStars(_, _)
InsertByStars(sorted, x) ==
    IF sorted = <<>> THEN <<x>>
    ELSE IF StarsCmp(x, Head(sorted)) < 0 THEN <<x>> \o sorted
    ELSE <<Head(sorted)>> \o InsertByStars(Tail(sorted), x)

RECURSIVE SortByStars(_)
SortByStars(results) ==
    IF results = <<>> THEN <<>>
    ELSE InsertByStars(SortByStars(SubSeq(results, 1, Len(results) - 1)),
                       results[Len(results)])

SearchQueries == { None, Some(<<>>), Some(<<" ">>), Some(<<"q">>) }

\* the page size of both search APIs: `per_page.min(100)`
MaxPerPage == 100

\* the "limit" member of the arguments: absent, a JSON string or a JSON number
LimitArgs ==
    { [kind |-> "absent", text |-> <<>>, value |-> 0] }
    \cup { [kind |-> "string", text |-> t, value |-> 0] :
             t \in { <<"2">>, <<"1", "5", "0">>, <<"+", "2">>, <<"x">>, <<>> } }
    \cup { [kind |-> "number", text |-> <<>>, value |-> n] : n \in {2, 150} }

DigitValue(c) ==
    CASE c = "0" -> 0 [] c = "1" -> 1 [] c = "2" -> 2 [] c = "5" -> 5

IsDigit(c) == c \in {"0", "1", "2", "5"}

RECURSIVE DigitsValue(_)
DigitsValue(digits) ==
    IF digits = <<>> THEN 0
    ELSE 10 * DigitsValue(SubSeq(digits, 1, Len(digits) - 1))
         + DigitValue(digits[Len(digits)])

\* str::parse::<usize>().ok(): decimal digits after an optional '+'
ParseUsize(text) ==
    LET digits == IF text # <<>> /\ Head(text) = "+" THEN Tail(text) ELSE text
    IN  IF digits # <<>> /\ \A i \in DOMAIN digits : IsDigit(digits[i])
        THEN Some(DigitsValue(digits))
        ELSE None

\* `args.get("limit").and_then(|v| ..)`: only `v.as_str()` is read, the
\* other arm of the closure is None
LimitOf(arg) ==
    IF arg.kind = "string" THEN ParseUsize(arg.text) ELSE None

\* the per_page parameter of a search request, None when there is none
PerPage(limit) ==
    IF limit = None THEN None
    ELSE Some(IF limit[1] < MaxPerPage THEN limit[1] ELSE MaxPerPage)

InitSearch ==
    /\ s_query \in SearchQueries
    /\ s_prov = [p \in Providers |-> [pc |-> "idle", res |-> SearchErr]]
    /\ s_net = {}
    /\ s_out = [status |-> "pending", text |-> "none", results |-> <<>>]
    /\ s_limit \in LimitArgs
    /\ s_page = [p \in Providers |-> None]
    /\ TreeIdle
    /\ include_patterns = <<>>
    /\ exclude_patterns = <<>>
    /\ ignore_patterns = <<>>
    /\ FilterIdle
    /\ RefIdle
    /\ RenderIdle

SearchFrame == UNCHANGED <<paramVars, treeVars, runVars, filterVars, refVars,
                           renderVars, s_query, s_limit>>

\* execute, up to join_all: a missing query is an error, else one
\* find_repositories future per provider
SearchExecute ==
    /\ s_out.status = "pending"
    /\ \A p \in Providers : s_prov[p].pc = "idle"
    /\ IF s_query = None
       THEN /\ s_out' = [s_out EXCEPT !.status = "err"]
            /\ s_prov' = s_prov
       ELSE /\ s_prov' = [p \in Providers |-> [s_prov[p] EXCEPT !.pc = "created"]]
            /\ s_out' = s_out
    /\ UNCHANGED <<s_net, s_page>>
    /\ SearchFrame

\* search_repositories of one provider, up to the request: a blank query
\* is an error of this provider, without a request; else the request is
\* sent, with the per_page parameter of the limit execute passed on
ProviderSearch(p) ==
    /\ s_prov[p].pc = "created"
    /\ IF IsBlank(s_query[1])
       THEN /\ s_prov' = [s_prov EXCEPT ![p] = [pc |-> "done", res |-> SearchErr]]
            /\ s_net' = s_net
            /\ s_page' = s_page
       ELSE /\ s_prov' = [s_prov EXCEPT ![p].pc = "sent"]
            /\ s_net' = s_net \cup {p}
            /\ s_page' = [s_page EXCEPT ![p] = PerPage(LimitOf(s_limit))]
    /\ UNCHANGED s_out
    /\ SearchFrame

\* the response of one provider, and the conversion of find_repositories
ProviderReturn(p) ==
    /\ s_prov[p].pc = "sent"
    /\ \E resp \in SearchResponses :
         s_prov' = [s_prov EXCEPT ![p] =
                      [pc |-> "done",
                       res |-> ToSearchResults(p,
                                 IF p = "github" THEN GitHubSearchRepositories(resp)
                                 ELSE GitLabSearchRepositories(resp))]]
    /\ UNCHANGED <<s_net, s_out, s_page>>
    /\ SearchFrame

\* join_all has both results: merge, the no-results message or the sorted
\* listing
SearchJoin ==
    /\ s_out.status = "pending"
    /\ \A p \in Providers : s_prov[p].pc = "done"
    /\ LET results == Surviving([k \in DOMAIN ProviderOrder |->
                                   s_prov[ProviderOrder[k]].res])
       IN  s_out' = IF results = <<>>
                    THEN [status |-> "ok", text |-> "no_results", results |-> <<>>]
                    ELSE [status |-> "ok", text |-> "listing",
                          results |-> SortByStars(results)]
    /\ UNCHANGED <<s_prov, s_net, s_page>>
    /\ SearchFrame

NextSearch ==
    \/ SearchExecute
    \/ \E p \in Providers : ProviderSearch(p)
    \/ \E p \in Providers : ProviderReturn(p)
    \/ SearchJoin

SpecSearch == InitSearch /\ [][NextSearch]_vars

\* ---- properties of the search ------------------------------------------
Occurrences(seq, x) == Cardinality({k \in DOMAIN seq : seq[k] = x})

SearchDone == s_out.status # "pending"

\* the repositories of the providers whose search succeeded are exactly the
\* listed ones, each as often as it was returned
AllSurvivorsListed ==
    \A p \in Providers : \A r \in RawRepos :
        LET x == [provider |-> p, full_name |-> r.full_name,
                  stargazers_count |-> r.stars]
        IN  Occurrences(s_out.results, x)
              = IF s_prov[p].res.ok
                THEN Cardinality({k \in DOMAIN s_prov[p].res.repos :
                                    s_prov[p].res.repos[k] = x})
                ELSE 0

\* C14: the listing holds the results of every provider that succeeded, in
\* non-increasing order of stargazers_count whichever provider they are of
C14_MergedByStars ==
    (SearchDone /\ s_query # None) =>
        /\ AllSurvivorsListed
        /\ \A i, j \in DOMAIN s_out.results :
             i < j => s_out.results[i].stargazers_count
                        >= s_out.results[j].stargazers_count

\* GitHub returned x/y with 5 stars, GitLab a/b with 50: a/b is listed first
C14_Witness ==
    /\ SearchDone
    /\ s_prov["github"].res.ok
    /\ s_prov["gitlab"].res.ok
    /\ s_out.results =
         << [provider |-> "gitlab", full_name |-> "a/b", stargazers_count |-> 50],
            [provider |-> "github", full_name |-> "x/y", stargazers_count |-> 5] >>

\* C15: with a query given, the call never fails because a provider did;
\* every result of a provider that succeeded is listed; with no result at
\* all (every provider failed) the call returns the no-results message
C15_FailuresDropped ==
    (SearchDone /\ s_query # None) =>
        /\ s_out.status = "ok"
        /\ AllSurvivorsListed
        /\ (\A p \in Providers : ~s_prov[p].res.ok)
             => (s_out.text = "no_results" /\ s_out.results = <<>>)

\* GitHub failed after its request was sent, GitLab's results are listed
C15_Witness ==
    /\ SearchDone
    /\ "github" \in s_net
    /\ ~s_prov["github"].res.ok
    /\ s_prov["gitlab"].res.ok
    /\ Len(s_out.results) = 2

\* C16: a search with an empty query fails with an error returned to the
\* caller, and no request is sent to any provider
C16_EmptyQueryRejected ==
    (SearchDone /\ s_query = Some(<<>>)) =>
        /\ s_out.status = "err"
        /\ s_net = {}

(***************************************************************************)
(* The tools: RepositoryTreeView::execute and RepositoryRead::execute       *)
(*                                                                         *)
(* The `repo` argument is the sequence of its ':'-separated parts, each    *)
(* the sequence of its '/'-separated pieces; the `git_ref` argument is the *)
(* sequence of its ':'-separated parts.                                    *)
(***************************************************************************)
\* the string of ':'-separated parts, as a reference name
RECURSIVE JoinColon(_)
JoinColon(parts) ==
    IF Len(parts) <= 1 THEN parts
    ELSE <<Head(parts), ":">> \o JoinColon(Tail(parts))

\* mutant: the prefixed forms keep their prefix in the name
parse_git_ref_PrefixKept(ref_str) ==
    IF ref_str = <<"">> THEN [kind |-> "Default", name |-> <<>>]
    ELSE IF Len(ref_str) # 2 THEN [kind |-> "Branch", name |-> JoinColon(ref_str)]
    ELSE IF ref_str[1] = "tag" THEN [kind |-> "Tag", name |-> JoinColon(ref_str)]
    ELSE IF ref_str[1] = "commit"
    THEN [kind |-> "Commit", name |-> JoinColon(ref_str)]
    ELSE [kind |-> "Branch", name |-> JoinColon(ref_str)]

\* parse_git_ref of either tool
parse_git_ref(ref_str) ==
    IF ref_str = <<"">> THEN [kind |-> "Default", name |-> <<>>]
    ELSE IF Len(ref_str) # 2 THEN [kind |-> "Branch", name |-> JoinColon(ref_str)]
    ELSE IF ref_str[1] = "tag" THEN [kind |-> "Tag", name |-> <<ref_str[2]>>]
    ELSE IF ref_str[1] = "commit" THEN [kind |-> "Commit", name |-> <<ref_str[2]>>]
    ELSE IF ref_str[1] = "branch" THEN [kind |-> "Branch", name |-> <<ref_str[2]>>]
    ELSE [kind |-> "Branch", name |-> JoinColon(ref_str)]

\* the git_ref argument: absent, or a string
GitRefArgs ==
    { None, Some(<<"">>), Some(<<"dev">>), Some(<<"tag", "v1">>),
      Some(<<"commit", "c0ffee">>), Some(<<"branch", "dev">>),
      Some(<<"foo", "bar">>), Some(<<"tag", "v1", "x">>) }

\* the repository part of an identifier
ToolPaths == RepoPaths \cup { <<"o">>, <<"", "r">> }

\* the repo argument
Identifiers ==
    { << <<p>>, path >> : p \in {"github", "gitlab", "bitbucket"},
                          path \in ToolPaths }
    \cup { << <<"o", "r">> >>, << <<"github">>, <<"o", "r">>, <<"x">> >> }

InitTool ==
    /\ provider = "none"
    /\ t_args \in [tool : {"tree", "file"}, repo : Identifiers,
                   git_ref : GitRefArgs]
    /\ r_req = [op |-> "none", git_ref |-> NoRef, repo_path |-> <<>>]
    /\ remote_default \in {None, Some(<<"main">>)}
    /\ r_pc = "tool"
    /\ r_path_branch = None
    /\ r_metadata = "none"
    /\ r_ref_name = None
    /\ r_calls = {}
    /\ r_outcome = "pending"
    /\ r_requests = {}
    /\ r_answer = NoAnswer
    /\ max_depth = 0
    /\ include_patterns = <<>>
    /\ exclude_patterns = <<>>
    /\ ignore_patterns = <<>>
    /\ frames = <<>>
    /\ fetched = {}
    /\ listed = 0
    /\ result = Pending
    /\ RunIdle
    /\ FilterIdle
    /\ RenderIdle
    /\ SearchIdle

\* execute, up to the call of the provider: the identifier must have two
\* ':'-separated parts, the second with a '/', and name a known provider
ToolExecute ==
    /\ r_pc = "tool"
    /\ LET parts == t_args.repo
       IN  IF Len(parts) # 2 \/ Len(parts[2]) < 2
           THEN /\ r_pc' = "done"
                /\ r_outcome' = "err"
                /\ UNCHANGED <<provider, r_req>>
           ELSE IF parts[1] \notin {<<p>> : p \in Providers}
           THEN /\ r_pc' = "done"
                /\ r_outcome' = "err"
                /\ UNCHANGED <<provider, r_req>>
           ELSE /\ provider' = parts[1][1]
                /\ r_req' = [op |-> t_args.tool,
                             git_ref |-> IF t_args.git_ref = None THEN NoRef
                                         ELSE parse_git_ref(t_args.git_ref[1]),
                             repo_path |-> parts[2]]
                /\ r_pc' = "start"
                /\ r_outcome' = r_outcome
    /\ UNCHANGED <<max_depth, include_patterns, exclude_patterns,
                   ignore_patterns, treeVars, runVars, filterVars, renderVars,
                   searchVars>>
    /\ UNCHANGED <<remote_default, r_path_branch, r_metadata, r_ref_name,
                   r_calls, r_requests, r_answer, t_args>>

NextTool ==
    \/ ToolExecute
    \/ GitHubCall
    \/ GitLabTreeCall
    \/ GitLabFileCall
    \/ MetadataReturn
    \/ GitignoreReturn
    \/ FileReturn
    \/ ListingReturn

SpecTool == InitTool /\ [][NextTool]_vars

\* ---- properties of the tools -------------------------------------------
\* an identifier of the form provider:owner/repo[/..]: two parts, a
\* supported provider, at least two non-empty segments
WellFormed(identifier) ==
    /\ Len(identifier) = 2
    /\ identifier[1] \in {<<"github">>, <<"gitlab">>}
    /\ Cardinality({k \in DOMAIN identifier[2] : identifier[2][k] # ""}) >= 2

\* C17: a tool call with a malformed identifier sends no request and does
\* not succeed; once the provider was entered it has failed
C17_MalformedFailsOffline ==
    ~WellFormed(t_args.repo) =>
        /\ r_requests = {}
        /\ r_outcome # "ok"
        /\ r_pc \in {"tool", "start", "done"}
        /\ r_pc = "done" => r_outcome = "err"

\* the repository a request addresses: the server decodes the URL once
UrlDecode(repo) ==
    [k \in DOMAIN repo |->
        IF repo[k] = "%2F" THEN "/"
        ELSE IF repo[k] = "%252F" THEN "%2F" ELSE repo[k]]

HasEmbeddedRef(identifier) ==
    /\ WellFormed(identifier)
    /\ EmbeddedBranch(identifier[1][1], identifier[2]) # <<>>

\* C18: with a reference embedded in the path, every request (metadata,
\* listing, file) addresses the repository of the first two segments
C18_IdentityWithoutSuffix ==
    HasEmbeddedRef(t_args.repo) =>
        \A q \in r_requests :
            UrlDecode(q.repo) = <<t_args.repo[2][1], "/", t_args.repo[2][2]>>

\* C19: an operation whose listing or file request was answered with a
\* not-found response (status 404) has failed
C19_NotFoundSurfaces ==
    r_answer.status = 404 => r_outcome = "err"

\* the documented meaning of the git_ref arguments
DocumentedRef(arg) ==
    CASE arg = None -> NoRef
      [] arg = Some(<<"">>) -> [kind |-> "Default", name |-> <<>>]
      [] arg = Some(<<"dev">>) -> [kind |-> "Branch", name |-> <<"dev">>]
      [] arg = Some(<<"tag", "v1">>) -> [kind |-> "Tag", name |-> <<"v1">>]
      [] arg = Some(<<"commit", "c0ffee">>)
           -> [kind |-> "Commit", name |-> <<"c0ffee">>]
      [] arg = Some(<<"branch", "dev">>) -> [kind |-> "Branch", name |-> <<"dev">>]
      [] arg = Some(<<"foo", "bar">>)
           -> [kind |-> "Branch", name |-> <<"foo", ":", "bar">>]
      [] arg = Some(<<"tag", "v1", "x">>)
           -> [kind |-> "Branch", name |-> <<"tag", ":", "v1", ":", "x">>]

\* C20: the provider is called with the documented GitRef of the git_ref
\* argument, and with a tag:, commit: or branch: argument (or any other
\* non-empty string) every Content Fetcher call carries the name, without
\* the prefix
C20_GitRefParsed ==
    r_req.op # "none" =>
        /\ r_req.git_ref = DocumentedRef(t_args.git_ref)
        /\ DocumentedRef(t_args.git_ref).kind \in {"Branch", "Tag", "Commit"}
             => \A c \in r_calls :
                    c.ref = Some(DocumentedRef(t_args.git_ref).name)

\* "tag:v1" was given and the file was requested at v1
C20_Witness ==
    /\ t_args.git_ref = Some(<<"tag", "v1">>)
    /\ r_req.git_ref = [kind |-> "Tag", name |-> <<"v1">>]
    /\ r_pc = "done"
    /\ r_outcome = "ok"
    /\ \E c \in r_calls : c.what = "file" /\ c.ref = Some(<<"v1">>)

(***************************************************************************)
(* The file cap, the filter and the failures inside one tree build         *)
(***************************************************************************)
\* number of File nodes among the direct children
DirectFiles(children) ==
    Cardinality({i \in DOMAIN children : children[i].node_type = "File"})

\* the loop of call `id` was left through `break` with entries unread
CutShort(id) ==
    /\ frames[id].pc \in {"finish", "join"}
    /\ frames[id].contents # <<>>
    /\ OverCap(frames[id])

\* what the call `id` hands to its caller in this step, Pending if nothing
StepResult(id) ==
    IF id = RootId THEN result'
    ELSE IF provider = "gitlab"
    THEN (IF id \in DOMAIN frames' THEN frames'[id].ret ELSE Pending)
    ELSE IF result'.status = "err" THEN Err
    ELSE IF /\ id \notin DOMAIN frames'
            /\ ParentId(id) \in DOMAIN frames'
            /\ Len(frames'[ParentId(id)].children)
                 = Len(frames[ParentId(id)].children) + 1
    THEN Ok(frames'[ParentId(id)].children[Len(frames'[ParentId(id)].children)])
    ELSE Pending

\* no enumeration goes on over the cap, and a listing contributes at most
\* MAX_FILES + 1 direct files
C21_StopsAtCap ==
    \A id \in DOMAIN frames :
        /\ OverCap(frames[id]) => frames[id].pc \notin {"loop", "await"}
        /\ DirectFiles(frames[id].children) <= MAX_FILES + 1
        /\ (frames[id].pc = "join" /\ frames[id].contents # <<>>)
             => DirectFiles(frames[id].children) = MAX_FILES + 1

\* the entries left unread stay unread: none becomes a child, a count or a
\* recursive call, and the call returns Ok
C21_TruncatedStep ==
    \A id \in DOMAIN frames :
        CutShort(id) =>
            LET f == frames[id]
                r == StepResult(id)
            IN  /\ {c \in DOMAIN frames' : ParentId(c) = id} \subseteq DOMAIN frames
                /\ \/ /\ id \in DOMAIN frames'
                      /\ frames'[id].pc = f.pc
                      /\ frames'[id].contents = f.contents
                      /\ frames'[id].children = f.children
                      /\ frames'[id].file_count = f.file_count
                      /\ frames'[id].tasks = f.tasks
                   \/ /\ r.status = "ok"
                      /\ DirectFiles(r.node.children) = DirectFiles(f.children)
                      /\ Len(r.node.children) <= Len(f.children) + Len(f.tasks)
                      /\ id \in DOMAIN frames' => frames'[id].contents = f.contents

\* C21: once file_count of the directory being enumerated exceeds MAX_FILES
\* the enumeration of that listing stops; no later entry of the listing is
\* added as a child, counted or recursed into, and the build returns Ok
C21_CapTruncates == [](C21_StopsAtCap) /\ [][C21_TruncatedStep]_vars

\* a build returned Ok although a directory that passes the filter was left
\* unread in the root listing
C21_Witness ==
    /\ result.status = "ok"
    /\ OverCap(frames[RootId])
    /\ \E i \in DOMAIN frames[RootId].contents :
         /\ frames[RootId].contents[i].item_type = "Directory"
         /\ EntryKept(frames[RootId].contents[i].path, include_patterns,
                      exclude_patterns, ignore_patterns)

\* the directories above `path`
Ancestors(path) ==
    {SubSeq(path, 1, k - 1) : k \in {j \in DOMAIN path : path[j] = "/"}}

Kept(path) ==
    EntryKept(path, include_patterns, exclude_patterns, ignore_patterns)

\* the entry at `path` and every directory above it pass the filter
PathKept(path) ==
    path = <<>> \/ (Kept(path) /\ \A a \in Ancestors(path) : Kept(a))

\* the path of the entry a child node was made of; the one entry without a
\* name is the blank object, whose path is blank too
ItemPath(dir, name) == IF name = <<>> THEN <<>> ELSE ChildPath(dir, name)

\* every node below `node`, the node of the directory `path`, was made of
\* an entry that passes the filter
RECURSIVE AllKept(_, _)
AllKept(node, path) ==
    \A i \in DOMAIN node.children :
        /\ Kept(ItemPath(path, node.children[i].name))
        /\ AllKept(node.children[i], ItemPath(path, node.children[i].name))

\* the counts of a node are those of the nodes that are in the tree
CountsOfPresent(n) ==
    /\ n.file_count = CountKind(n, "File")
    /\ n.size = LeafSizes(n)
    /\ n.node_type = "Directory"
         => n.dir_count = 1 + CountKindOfAll(n.children, "Directory")

\* C22: an entry that fails the filter adds no child node and nothing to a
\* count of an ancestor, and no Content Fetcher call is made for it or for
\* anything below it
C22_FilteredSkipped ==
    /\ \A c \in fetched : PathKept(c.path)
    /\ \A id \in DOMAIN frames :
         /\ PathKept(frames[id].path)
         /\ \A k \in DOMAIN frames[id].tasks : PathKept(frames[id].tasks[k])
    /\ result.status = "ok"
         => /\ AllKept(result.node, <<>>)
            /\ \A n \in NodesOf(result.node) : CountsOfPresent(n)

\* the entries the remote lists for the root
RootEntries == ToItems(provider, <<>>, RemoteAnswer(<<>>).entries)

\* the root listing holds a directory that fails the filter and has entries
\* of its own, and the tree was built
C22_Witness ==
    /\ result.status = "ok"
    /\ result.node.children # <<>>
    /\ \E i \in DOMAIN RootEntries :
         /\ RootEntries[i].item_type = "Directory"
         /\ ~Kept(RootEntries[i].path)
         /\ RemoteAnswer(RootEntries[i].path).kind = "listing"
         /\ RemoteAnswer(RootEntries[i].path).entries # <<>>

\* the paths of the File leaves below `node`, the node of directory `path`
RECURSIVE FilePaths(_, _)
FilePaths(node, path) ==
    UNION { IF node.children[i].node_type = "File"
            THEN {ItemPath(path, node.children[i].name)}
            ELSE FilePaths(node.children[i],
                           ItemPath(path, node.children[i].name)) :
            i \in DOMAIN node.children }

\* directories of the root listing whose path matches no include pattern
PrunedByInclude ==
    {RootEntries[i].path : i \in {j \in DOMAIN RootEntries :
        /\ RootEntries[j].item_type = "Directory"
        /\ ~AnyGlobMatches(include_patterns, RootEntries[j].path)}}

\* C23: with a non-empty include list a directory whose path matches no
\* include pattern is not fetched, and no file below it is in the tree or
\* in a count, whether the file's own path matches or not
C23_IncludePrunesAncestors ==
    include_patterns # <<>> =>
        \A d \in PrunedByInclude :
            /\ \A c \in fetched : c.path # d /\ d \notin Ancestors(c.path)
            /\ result.status = "ok"
                 => /\ \A fp \in FilePaths(result.node, <<>>) :
                          d \notin Ancestors(fp)
                    /\ result.node.file_count = CountKind(result.node, "File")

\* a pruned directory holds a file whose own path matches the include list
C23_Witness ==
    /\ include_patterns # <<>>
    /\ result.status = "ok"
    /\ result.node.file_count > 0
    /\ \E d \in PrunedByInclude :
         /\ RemoteAnswer(d).kind = "listing"
         /\ \E k \in DOMAIN RemoteAnswer(d).entries :
              /\ RemoteAnswer(d).entries[k].type = FileType(provider)
              /\ AnyGlobMatches(include_patterns,
                                ChildPath(d, RemoteAnswer(d).entries[k].name))

(***************************************************************************)
(* Malformed glob patterns                                                 *)
(***************************************************************************)
\* the patterns of a list that parse
WellFormedOnly(patterns) == SelectSeq(patterns, PatternIsOk)

\* the verdict on the lists once their malformed patterns are taken out,
\* an include list that was given staying given
VerdictWithoutMalformed ==
    /\ \/ include_patterns = <<>>
       \/ AnyGlobMatches(WellFormedOnly(include_patterns), f_path)
    /\ ~AnyGlobMatches(WellFormedOnly(exclude_patterns), f_path)
    /\ ~AnyContained(ignore_patterns, f_path)

\* C24: a glob that does not parse matches no path and raises no error: the
\* verdict is the one of the lists without their malformed patterns, so a
\* malformed exclude pattern excludes nothing and an include list made
\* only of malformed patterns keeps no entry
C24_MalformedMatchesNothing ==
    f_checked =>
        /\ f_kept \in BOOLEAN
        /\ f_kept = VerdictWithoutMalformed
        /\ (include_patterns # <<>> /\ WellFormedOnly(include_patterns) = <<>>)
             => ~f_kept

\* nothing excludes the entry, and it is dropped because the include list
\* holds malformed patterns only; the exclude list holds one too
C24_Witness ==
    /\ f_op = "check"
    /\ include_patterns # <<>>
    /\ WellFormedOnly(include_patterns) = <<>>
    /\ exclude_patterns # <<>>
    /\ WellFormedOnly(exclude_patterns) = <<>>
    /\ ~AnyContained(ignore_patterns, f_path)
    /\ ~f_kept

(***************************************************************************)
(* Failures of the Content Fetcher inside a build                          *)
(***************************************************************************)
\* the call `id` returns in this step
Returns(id) ==
    /\ frames[id].pc \notin {"done", "returned"}
    /\ id \in DOMAIN frames'
    /\ frames'[id].pc = IF id = RootId THEN "returned" ELSE "done"

RECURSIVE SumOfFileCounts(_)
SumOfFileCounts(nodes) ==
    IF nodes = <<>> THEN 0
    ELSE Head(nodes).file_count + SumOfFileCounts(Tail(nodes))

RECURSIVE SumOfDirCounts(_)
SumOfDirCounts(nodes) ==
    IF nodes = <<>> THEN 0
    ELSE Head(nodes).dir_count + SumOfDirCounts(Tail(nodes))

\* how often the node n occurs among the nodes
TimesIn(nodes, n) == Cardinality({i \in DOMAIN nodes : nodes[i] = n})

\* GitLab, the step in which a build past its listing returns: it returns
\* Ok, with every direct file and every child that was built, no other
\* child, and counts that are the sums over these children
C25_JoinStep ==
    provider = "gitlab" =>
        \A id \in DOMAIN frames :
            (frames[id].pc = "join" /\ Returns(id)) =>
                LET f == frames[id]
                    r == StepResult(id)
                    rets == [k \in 1..Len(f.tasks) |-> frames[Append(id, k)].ret]
                    built == {k \in DOMAIN rets : rets[k].status = "ok"}
                IN  /\ r.status = "ok"
                    /\ \A k \in DOMAIN rets : rets[k].status \in {"ok", "err"}
                    /\ Len(r.node.children) = Len(f.children) + Cardinality(built)
                    /\ \A i \in DOMAIN f.children :
                         TimesIn(r.node.children, f.children[i])
                            >= TimesIn(f.children, f.children[i])
                    /\ \A k \in built :
                         TimesIn(r.node.children, rets[k].node)
                            >= Cardinality({j \in built : rets[j].node = rets[k].node})
                    /\ r.node.size = SumOfSizes(r.node.children)
                    /\ r.node.file_count = SumOfFileCounts(r.node.children)
                    /\ r.node.dir_count = 1 + SumOfDirCounts(r.node.children)

\* GitLab: a build returns an error only from its own listing call
C25_ListingStep ==
    provider = "gitlab" =>
        \A id \in DOMAIN frames :
            (Returns(id) /\ StepResult(id).status = "err")
                => /\ frames[id].pc = "fetch"
                   /\ id = RootId => result' = Err

\* C25: in the GitLab build_tree a failed child build leaves the parent
\* build Ok, with every successfully built sibling and every direct file in
\* its tree and the counts aggregated over the children present; a failure
\* of the root listing is returned as an error
C25_ChildFailureTolerated == [][C25_JoinStep /\ C25_ListingStep]_vars

\* one sibling build failed, another returned files, and the root holds the
\* latter next to a direct file
C25_Witness ==
    /\ provider = "gitlab"
    /\ result.status = "ok"
    /\ Len(frames[RootId].tasks) = 2
    /\ CountKindOfAll(<<result.node>>, "Directory") = 2
    /\ DirectFiles(result.node.children) = 1
    /\ result.node.file_count = 2

\* C26 as stated: in the GitLab build_tree every child directory whose build
\* was started is a Directory child of the returned node, a failed one as
\* an empty directory
C26_FailedChildKeptEmpty ==
    (provider = "gitlab" /\ result.status = "ok")
        => \A k \in DOMAIN frames[RootId].tasks :
              \E i \in DOMAIN result.node.children :
                  /\ result.node.children[i].node_type = "Directory"
                  /\ result.node.children[i].name
                       = LastSegment(frames[RootId].tasks[k])

\* the Content Fetcher of GitHub returns Err for the listing of `path`
ListingFails(path) == ~fetch_contents(path, RemoteAnswer(path)).ok

FetchedPaths == {c.path : c \in fetched}

\* the listing call for `path` has been answered
Answered(path) ==
    ~\E id \in DOMAIN frames : frames[id].pc = "fetch" /\ frames[id].path = path

\* C27: in the GitHub build_tree an error of the Content Fetcher at any
\* level makes the whole build return the error: no tree is returned over
\* a failed listing, the error carries no partial tree, and no directory
\* that comes after the failing one is fetched
C27_GitHubErrorIsFatal ==
    provider = "github" =>
        LET failed == {p \in FetchedPaths : ListingFails(p)}
        IN  /\ result.status = "ok" => failed = {}
            /\ result.status = "err"
                 => /\ result.node = NoNode
                    /\ DOMAIN frames = {RootId}
                    /\ failed # {}
            /\ (run = 1 /\ \E p \in failed : Answered(p)) => result.status = "err"
            /\ Cardinality(failed) <= 1
            /\ \A i, j \in DOMAIN RootEntries :
                 (/\ i < j
                  /\ RootEntries[i].item_type = "Directory"
                  /\ RootEntries[i].path \in failed
                  /\ RootEntries[j].item_type = "Directory")
                    => RootEntries[j].path \notin FetchedPaths

\* the listing of a nested directory failed and the build returned the
\* error; the directory after it in the root listing passes the filter and
\* was never fetched
C27_Witness ==
    /\ provider = "github"
    /\ result.status = "err"
    /\ Len(RootEntries) = 2
    /\ RootEntries[1].item_type = "Directory"
    /\ RootEntries[1].path \in FetchedPaths
    /\ ListingFails(RootEntries[1].path)
    /\ RootEntries[2].item_type = "Directory"
    /\ Kept(RootEntries[2].path)
    /\ RootEntries[2].path \notin FetchedPaths

\* the operation failed on the metadata request: the request was answered
\* and the operation ended in an error before any Content Fetcher call
FailedOnMetadata ==
    /\ r_metadata # "none"
    /\ r_calls = {}
    /\ r_pc = "done"
    /\ r_outcome = "err"

\* C28 as stated: with an explicit Branch, Tag or Commit reference the
\* outcome of the tree-view and file-read operations does not depend on the
\* metadata request, a failing metadata request does not fail the operation
C28_ExplicitRefIgnoresMetadata ==
    r_req.git_ref.kind \in {"Branch", "Tag", "Commit"} => ~FailedOnMetadata

(***************************************************************************)
(* Termination of a build against a remote of unbounded nesting            *)
(***************************************************************************)
\* the directory a/a/../a, n levels below the root
RECURSIVE Chain(_)
Chain(n) == IF n = 0 THEN <<>> ELSE ChildPath(Chain(n - 1), <<"a">>)

\* the remote is modelled two levels further down than a build may list
DeepPaths == {Chain(n) : n \in 0..(MaxDepthBound + 2)}

\* listings that all hold the sub-directory "a"
DeepListings(p) ==
    { << [name |-> <<"a">>, type |-> DirType(p), size |-> None] >>,
      << [name |-> <<"a">>, type |-> DirType(p), size |-> None],
         [name |-> <<"b">>, type |-> FileType(p), size |-> Some(2)] >>,
      << [name |-> <<"a">>, type |-> FileType(p), size |-> None],
         [name |-> <<"a">>, type |-> DirType(p), size |-> None] >>,
      << [name |-> <<"b">>, type |-> DirType(p), size |-> None],
         [name |-> <<"a">>, type |-> DirType(p), size |-> None] >> }

InitDeep ==
    /\ provider \in Providers
    /\ max_depth \in 0..MaxDepthBound
    /\ \E fs \in TreeFilters :
         /\ include_patterns = fs[1]
         /\ exclude_patterns = fs[2]
         /\ ignore_patterns = fs[3]
    /\ frames = (RootId :> NewFrame(<<>>, 0))
    /\ fetched = {}
    /\ listed = 0
    /\ result = Pending
    /\ \E l \in DeepListings(provider) :
         served = [path \in DeepPaths |-> [kind |-> "listing", entries |-> l]]
    /\ run = 1
    /\ outputs = <<>>
    /\ FilterIdle
    /\ RefIdle
    /\ RenderIdle
    /\ SearchIdle

\* every Content Fetcher call returns and the executor keeps polling the
\* futures that can make a step
SpecDeep == InitDeep /\ [][Next]_vars /\ WF_vars(Next)

\* the calls made by the call `id`, directly or not
Descendants(id) ==
    {c \in DOMAIN frames : Len(c) > Len(id) /\ SubSeq(c, 1, Len(id)) = id}

\* no listing call past max_depth, and a call that has returned has no
\* call of its own still running
C29_Safe ==
    /\ \A c \in fetched : c.depth <= max_depth
    /\ \A id \in DOMAIN frames :
         frames[id].pc \in {"done", "returned"} => Descendants(id) = {}
    /\ result.status # "pending" => DOMAIN frames = {RootId}

\* C29: every tree build terminates with a tree or an error when every
\* Content Fetcher call returns, also against a fetcher that reports a
\* sub-directory in every listing: no call is made at depth > max_depth,
\* and a parent returns only after every child build it started is over
C29_Terminates == <>(result.status # "pending") /\ []C29_Safe

\* a build to the full depth returned a tree although the remote goes on
\* below the last listing that was made
C29_Witness ==
    /\ max_depth = MaxDepthBound
    /\ result.status = "ok"
    /\ result.node.dir_count >= max_depth + 2
    /\ Chain(max_depth) \in FetchedPaths
    /\ Chain(max_depth + 1) \in DOMAIN served
    /\ Chain(max_depth + 1) \notin FetchedPaths

(***************************************************************************)
(* The limit of the repository search                                      *)
(***************************************************************************)
\* the limit a "limit" argument stands for, given as a string or a number
DocumentedLimit(arg) ==
    IF arg.kind = "string" THEN ParseUsize(arg.text)
    ELSE IF arg.kind = "number" THEN Some(arg.value)
    ELSE None

\* C30 as stated: every provider is queried with the same limit, capped at
\* min(limit, 100) as its page size, the limit being honoured as a string
\* and as a number, and the merged output holds exactly the results of the
\* providers that succeeded
C30_LimitHonoured ==
    /\ \A p \in s_net : s_page[p] = PerPage(DocumentedLimit(s_limit))
    /\ (SearchDone /\ s_query # None) => AllSurvivorsListed

====
